---- MODULE Spec2Model ----
(***************************************************************************)
(* Model of the cipher primitives (ciphers/affine.py,                      *)
(* ciphers/affine_bigram.py, ciphers/vigenere.py), of the criteria         *)
(* (criteria.py), of the counters and the entropy they use (helper.py) and *)
(* of the error-rate evaluator (error_rates.py).                           *)
(*                                                                         *)
(* Texts and alphabets are sequences of one-character strings.  Python's   *)
(* 0-based index i is the 1-based index i + 1 of a sequence.  A call ends  *)
(* either with a text or with an exception: a result is the record         *)
(* [err, text], err = "" for a normal return.  Floats are modelled as the  *)
(* exact rationals [num, den] they round.                                  *)
(***************************************************************************)
EXTENDS Integers, Sequences, FiniteSets, TLC

VARIABLES
    \* ---- cipher primitives ----
    cipher,      \* which cipher module is exercised
    alphabet,    \* _alphabet
    text,        \* _text handed to the first call
    a, b,        \* affine keys
    key,         \* _key of the Vigenere cipher
    crossing,    \* pairing mode of the affine bigram cipher
    pc,          \* which calls have been made
    enc,         \* result of encrypt(text)
    dinput,      \* the text handed to decrypt
    dec,         \* result of decrypt(dinput)
    \* ---- extended Euclid ----
    ea, eb,      \* arguments of euclidean_algorithm_extended
    eres,        \* its result (gcd, x, y)
    \* ---- criteria and error rates ----
    generated_texts,   \* corpus {length: [{"plaintext", "ciphertext"}, ...]}
    forbidden_symbols, \* list of symbols, or None
    forbidden_bigrams, \* list of bigrams, or None
    criteria_result,   \* {length: (plain_count, cipher_count)}
    len_texts,
    count_texts,
    error_rates,       \* {length: {'alpha', 'beta'}}
    stage,             \* which of the criterion and the evaluator have run
    \* ---- the suite of criteria ----
    criterion,         \* which criterion is called
    kp,                \* threshold of criterion 1.1
    jtop, kempt,       \* j (top-j) and empty-bin threshold of criterion 5.1
    symbols_frequency, \* reference table [(symbol, frequency), ...], or None
    bigrams_frequency, \* reference table [(bigram, frequency), ...], or None
    H, kH, use_bigrams, \* reference entropy, deviation and `bigrams` of criterion 3.0
    kC,                \* tolerance of the structural criterion
    baseline_random,   \* {length: R_L}, or None
    compress_ratio,    \* what the compressor makes of each text
    replaced_texts,    \* the corpus with one text of every pair replaced
    replaced_result,   \* the criterion's result on replaced_texts
    raised,            \* a threshold above the one in use
    raised_result,     \* the criterion's result with the raised threshold
    \* ---- crossing bigram counter ----
    btext,             \* _text of bigram_count_crossing
    bresult,           \* its result
    \* ---- entropy, l-gram selection and the dynamic baseline (helper.py) ----
    esequence,         \* sequence: table [(l-gram, count), ...] of entropy_calculate
    entropy,           \* its result
    counts,            \* table [(l-gram, count), ...] of select_*_sets_from_counts
    forbid_mass,       \* [num, den]
    popular_coverage,  \* [num, den]
    selection,         \* {"forbidden": [...], "popular": [...]}
    clean_texts_by_L,  \* {length: [sample, ...]} of compute_kH_dynamic
    kH_bigrams,        \* `bigrams` of compute_kH_dynamic
    alpha,             \* [num, den]
    kH_dynamic         \* its result (result_H, result_kH)

cipherVars == <<cipher, alphabet, text, a, b, key, crossing, pc, enc, dinput, dec>>
egcdVars == <<ea, eb, eres>>
critVars == <<generated_texts, forbidden_symbols, forbidden_bigrams,
              criteria_result, len_texts, count_texts, error_rates, stage>>
suiteVars == <<criterion, kp, jtop, kempt, symbols_frequency, bigrams_frequency,
               H, kH, use_bigrams, kC, baseline_random, compress_ratio,
               replaced_texts, replaced_result, raised, raised_result>>
counterVars == <<btext, bresult>>
helperVars == <<esequence, entropy, counts, forbid_mass, popular_coverage, selection,
                clean_texts_by_L, kH_bigrams, alpha, kH_dynamic>>
vars == <<cipherVars, egcdVars, critVars, suiteVars, counterVars, helperVars>>

----------------------------------------------------------------------------
(* Bounds of the model *)

MaxLen == 4        \* longest text handed to a cipher
MaxA == 9          \* largest multiplicative key a
MaxB == 1          \* additive keys b range over -MaxB .. MaxB
MaxKeyLen == 2     \* longest Vigenere key
MaxE == 9          \* largest argument of euclidean_algorithm_extended
MaxPairs == 2      \* most text pairs in a corpus of short texts
MaxTextLen == 3    \* longest text of a one-pair corpus
MaxCount == 2      \* largest count in count_texts and in a caller-made result
MaxPlan == 2       \* longest len_texts / count_texts of a caller-made plan

\* All sequences over S of length at most n
SeqUpTo(S, n) == UNION {[1..k -> S] : k \in 0..n}

\* The ciphers read an alphabet only through the positions of its symbols, so
\* one alphabet of each size stands for all of them.  Its order is not the
\* symbols' own, so that a position is not the symbol.
Letters == <<"c", "a", "e", "b", "d">>
AlphabetOfSize(m) == SubSeq(Letters, 1, m)

\* alphabet sizes the ciphers are run on: modulo 5, and modulo 3 * 3, some
\* key a is not its own inverse
AffineSizes == {2, 4, 5}
BigramSizes == {2, 3}
VigenereSizes == {2, 3}

\* a symbol of no alphabet
Outsider == "z"

\* the symbols of a text handed to a cipher: those of the alphabet and the outsider
SymbolsFor(_alphabet) == {_alphabet[i] : i \in 1..Len(_alphabet)} \cup {Outsider}

----------------------------------------------------------------------------
(* Results of a call *)

Ok(t) == [err |-> "", text |-> t]
Raise(e) == [err |-> e, text |-> <<>>]
Pending == [err |-> "pending", text |-> <<>>]
None == "None"

\* x in lst (Python's membership test on a list or a string of symbols)
In(x, lst) == \E i \in 1..Len(lst) : lst[i] = x

\* _alphabet.index(ch): 0-based position of the first occurrence
Index(_alphabet, ch) ==
    (CHOOSE i \in 1..Len(_alphabet) :
        /\ _alphabet[i] = ch
        /\ \A j \in 1..(i - 1) : _alphabet[j] # ch) - 1

\* _alphabet[i] with a 0-based i
At(_alphabet, i) == _alphabet[i + 1]

----------------------------------------------------------------------------
(* Extended Euclidean algorithm *)

RECURSIVE egcd_swapped_coefficients(_, _)
egcd_swapped_coefficients(p, q) ==
    IF p = 0 THEN <<q, 0, 1>>
    ELSE LET r == egcd_swapped_coefficients(q % p, p)
         IN  <<r[1], r[2] - (q \div p) * r[3], r[3]>>

RECURSIVE euclidean_algorithm_extended(_, _)
euclidean_algorithm_extended(p, q) ==
    IF p = 0 THEN <<q, 0, 1>>
    ELSE LET r == euclidean_algorithm_extended(q % p, p)
         IN  <<r[1], r[3] - (q \div p) * r[2], r[2]>>

----------------------------------------------------------------------------
(* Affine cipher *)

affine_encrypt_check_after_loop(_alphabet, _text, ka, kb) ==
    LET m == Len(_alphabet)
    IN  IF \E i \in 1..Len(_text) : ~In(_text[i], _alphabet)
        THEN Raise("UnknownSymbol")
        ELSE IF euclidean_algorithm_extended(ka, m)[1] # 1
        THEN Raise("InvalidKey")
        ELSE Ok([i \in 1..Len(_text) |->
                    At(_alphabet, (ka * Index(_alphabet, _text[i]) + kb) % m)])

\* encrypt reducing modulo the last index of the alphabet instead of its size
affine_encrypt_short_modulus(_alphabet, _text, ka, kb) ==
    LET m == Len(_alphabet)
    IN  IF euclidean_algorithm_extended(ka, m)[1] # 1
        THEN Raise("InvalidKey")
        ELSE IF \E i \in 1..Len(_text) : ~In(_text[i], _alphabet)
        THEN Raise("UnknownSymbol")
        ELSE Ok([i \in 1..Len(_text) |->
                    At(_alphabet, (ka * Index(_alphabet, _text[i]) + kb) % (m - 1))])

affine_encrypt(_alphabet, _text, ka, kb) ==
    LET m == Len(_alphabet)
    IN  IF euclidean_algorithm_extended(ka, m)[1] # 1
        THEN Raise("InvalidKey")
        ELSE IF \E i \in 1..Len(_text) : ~In(_text[i], _alphabet)
        THEN Raise("UnknownSymbol")
        ELSE Ok([i \in 1..Len(_text) |->
                    At(_alphabet, (ka * Index(_alphabet, _text[i]) + kb) % m)])

affine_decrypt_without_inverse(_alphabet, _text, ka, kb) ==
    LET m == Len(_alphabet)
    IN  IF euclidean_algorithm_extended(ka, m)[1] # 1
        THEN Raise("InvalidKey")
        ELSE IF \E i \in 1..Len(_text) : ~In(_text[i], _alphabet)
        THEN Raise("UnknownSymbol")
        ELSE Ok([i \in 1..Len(_text) |->
                    At(_alphabet, (ka * (Index(_alphabet, _text[i]) - kb)) % m)])

affine_decrypt(_alphabet, _text, ka, kb) ==
    LET m == Len(_alphabet)
        a_inv == euclidean_algorithm_extended(ka, m)[2] % m
    IN  IF euclidean_algorithm_extended(ka, m)[1] # 1
        THEN Raise("InvalidKey")
        ELSE IF \E i \in 1..Len(_text) : ~In(_text[i], _alphabet)
        THEN Raise("UnknownSymbol")
        ELSE Ok([i \in 1..Len(_text) |->
                    At(_alphabet, (a_inv * (Index(_alphabet, _text[i]) - kb)) % m)])

----------------------------------------------------------------------------
(* Affine bigram cipher *)

\* the number of pairs of the non-overlapping walk, whatever `crossing` says
NumPairs_non_crossing(n, _crossing) == (n + 1) \div 2

\* number of index pairs (i, i + 1) the generator `it` yields for a text of n symbols
NumPairs(n, _crossing) == IF _crossing THEN n - 1 ELSE (n + 1) \div 2

\* 0-based first index of the k-th pair (k = 1, 2, ...)
PairStart(k, _crossing) == IF _crossing THEN k - 1 ELSE 2 * (k - 1)

\* "".join(res): the k-th pair's value vals[k] in [0, m^2) decoded by divmod(., m)
JoinPairs(_alphabet, vals) ==
    LET m == Len(_alphabet)
    IN  [j \in 1..(2 * Len(vals)) |->
            LET k == (j + 1) \div 2
            IN  IF j % 2 = 1 THEN At(_alphabet, vals[k] \div m)
                             ELSE At(_alphabet, vals[k] % m)]

affine_bigram_encrypt_check_if_nonempty(_alphabet, _text, ka, kb, _crossing, pad_char) ==
    LET m == Len(_alphabet)
        nmod == m * m
        odd == ~_crossing /\ Len(_text) % 2 = 1
        pad == IF pad_char = None THEN At(_alphabet, 0) ELSE pad_char
        t == IF odd THEN Append(_text, pad) ELSE _text
        X(k) == Index(_alphabet, t[PairStart(k, _crossing) + 1]) * m
                + Index(_alphabet, t[PairStart(k, _crossing) + 2])
        Y(k) == (ka * X(k) + kb) % nmod
    IN  IF Len(_text) > 0 /\ euclidean_algorithm_extended(ka, nmod)[1] # 1
        THEN Raise("InvalidKey")
        ELSE IF odd /\ ~In(pad, _alphabet)
        THEN Raise("BadPadChar")
        ELSE IF _crossing /\ Len(_text) < 2
        THEN Ok(<<>>)
        ELSE IF \E i \in 1..Len(t) : ~In(t[i], _alphabet)
        THEN Raise("UnknownSymbol")
        ELSE Ok(JoinPairs(_alphabet, [k \in 1..NumPairs(Len(t), _crossing) |-> Y(k)]))

affine_bigram_encrypt(_alphabet, _text, ka, kb, _crossing, pad_char) ==
    LET m == Len(_alphabet)
        nmod == m * m
        odd == ~_crossing /\ Len(_text) % 2 = 1
        pad == IF pad_char = None THEN At(_alphabet, 0) ELSE pad_char
        t == IF odd THEN Append(_text, pad) ELSE _text
        X(k) == Index(_alphabet, t[PairStart(k, _crossing) + 1]) * m
                + Index(_alphabet, t[PairStart(k, _crossing) + 2])
        Y(k) == (ka * X(k) + kb) % nmod
    IN  IF euclidean_algorithm_extended(ka, nmod)[1] # 1
        THEN Raise("InvalidKey")
        ELSE IF odd /\ ~In(pad, _alphabet)
        THEN Raise("BadPadChar")
        ELSE IF _crossing /\ Len(_text) < 2
        THEN Ok(<<>>)
        ELSE IF \E i \in 1..Len(t) : ~In(t[i], _alphabet)
        THEN Raise("UnknownSymbol")
        ELSE Ok(JoinPairs(_alphabet, [k \in 1..NumPairs(Len(t), _crossing) |-> Y(k)]))

affine_bigram_decrypt_mod_m(_alphabet, _text, ka, kb, _crossing) ==
    LET m == Len(_alphabet)
        nmod == m * m
        a_inv == euclidean_algorithm_extended(ka, nmod)[2] % m
        Y(k) == Index(_alphabet, _text[PairStart(k, _crossing) + 1]) * m
                + Index(_alphabet, _text[PairStart(k, _crossing) + 2])
        X(k) == (a_inv * ((Y(k) - kb) % nmod)) % nmod
    IN  IF euclidean_algorithm_extended(ka, nmod)[1] # 1
        THEN Raise("InvalidKey")
        ELSE IF ~_crossing /\ Len(_text) % 2 # 0
        THEN Raise("OddLength")
        ELSE IF _crossing /\ Len(_text) < 2
        THEN Ok(<<>>)
        ELSE IF \E i \in 1..Len(_text) : ~In(_text[i], _alphabet)
        THEN Raise("UnknownSymbol")
        ELSE Ok(JoinPairs(_alphabet, [k \in 1..NumPairs(Len(_text), _crossing) |-> X(k)]))

affine_bigram_decrypt(_alphabet, _text, ka, kb, _crossing) ==
    LET m == Len(_alphabet)
        nmod == m * m
        a_inv == euclidean_algorithm_extended(ka, nmod)[2] % nmod
        Y(k) == Index(_alphabet, _text[PairStart(k, _crossing) + 1]) * m
                + Index(_alphabet, _text[PairStart(k, _crossing) + 2])
        X(k) == (a_inv * ((Y(k) - kb) % nmod)) % nmod
    IN  IF euclidean_algorithm_extended(ka, nmod)[1] # 1
        THEN Raise("InvalidKey")
        ELSE IF ~_crossing /\ Len(_text) % 2 # 0
        THEN Raise("OddLength")
        ELSE IF _crossing /\ Len(_text) < 2
        THEN Ok(<<>>)
        ELSE IF \E i \in 1..Len(_text) : ~In(_text[i], _alphabet)
        THEN Raise("UnknownSymbol")
        ELSE Ok(JoinPairs(_alphabet, [k \in 1..NumPairs(Len(_text), _crossing) |-> X(k)]))

----------------------------------------------------------------------------
(* Vigenere cipher *)

\* The loop body at 0-based position i fails when _text[i] is not in the
\* alphabet (ValueError), else when the key is empty (i % 0), else when the
\* key symbol is not in the alphabet (ValueError).
VigenereStepError(_alphabet, _text, _key, i) ==
    IF ~In(_text[i + 1], _alphabet) THEN "UnknownSymbol"
    ELSE IF Len(_key) = 0 THEN "ZeroDivision"
    ELSE IF ~In(_key[(i % Len(_key)) + 1], _alphabet) THEN "UnknownSymbol"
    ELSE ""

\* The loop of encrypt (sign = 1) and decrypt (sign = -1)
VigenereLoop(_alphabet, _text, _key, sign) ==
    LET failing == {i \in 0..(Len(_text) - 1) :
                       VigenereStepError(_alphabet, _text, _key, i) # ""}
        first == CHOOSE i \in failing : \A j \in failing : i <= j
    IN  IF failing # {}
        THEN Raise(VigenereStepError(_alphabet, _text, _key, first))
        ELSE Ok([j \in 1..Len(_text) |->
                    At(_alphabet,
                       (Index(_alphabet, _text[j])
                        + sign * Index(_alphabet, _key[((j - 1) % Len(_key)) + 1]))
                       % Len(_alphabet))])

vigenere_encrypt(_alphabet, _text, _key) == VigenereLoop(_alphabet, _text, _key, 1)

vigenere_decrypt_adds_key(_alphabet, _text, _key) == VigenereLoop(_alphabet, _text, _key, 1)

vigenere_decrypt(_alphabet, _text, _key) == VigenereLoop(_alphabet, _text, _key, -1)

----------------------------------------------------------------------------
(* The components a specification does not exercise stay idle *)

CipherIdle ==
    /\ cipher = "none" /\ alphabet = <<>> /\ text = <<>> /\ a = 1 /\ b = 0
    /\ key = <<>> /\ crossing = FALSE /\ pc = "idle"
    /\ enc = Pending /\ dinput = <<>> /\ dec = Pending

EgcdIdle == ea = 0 /\ eb = 0 /\ eres = <<>>

SuiteIdle ==
    /\ criterion = "none" /\ kp = 0 /\ jtop = 0 /\ kempt = 0
    /\ symbols_frequency = [isNone |-> TRUE, val |-> <<>>]
    /\ bigrams_frequency = [isNone |-> TRUE, val |-> <<>>]
    /\ H = 0 /\ kH = 0 /\ use_bigrams = FALSE
    /\ kC = 0 /\ baseline_random = [isNone |-> TRUE, val |-> <<>>]
    /\ compress_ratio = [name |-> "none", ratio |-> <<>>]
    /\ replaced_texts = <<>>
    /\ replaced_result = [err |-> "pending", value |-> <<>>]
    /\ raised = 0
    /\ raised_result = [err |-> "pending", value |-> <<>>]

CounterIdle == btext = <<>> /\ bresult = [err |-> "pending", value |-> <<>>]

HelperIdle ==
    /\ esequence = <<>> /\ entropy = [err |-> "pending", value |-> <<>>]
    /\ counts = <<>>
    /\ forbid_mass = [num |-> 0, den |-> 1] /\ popular_coverage = [num |-> 1, den |-> 1]
    /\ selection = [err |-> "pending", value |-> <<>>]
    /\ clean_texts_by_L = <<>> /\ kH_bigrams = FALSE /\ alpha = [num |-> 0, den |-> 1]
    /\ kH_dynamic = [err |-> "pending", value |-> <<>>]

----------------------------------------------------------------------------
(* Calls of the cipher primitives.  A caller may encrypt a text, decrypt    *)
(* any text it holds, or decrypt the ciphertext encrypt has just returned.  *)

CipherInit ==
    /\ \/ /\ cipher = "affine"
          /\ alphabet \in {AlphabetOfSize(m) : m \in AffineSizes}
          /\ a \in 0..MaxA /\ b \in (-MaxB)..MaxB
          /\ key = <<>> /\ crossing = FALSE
       \/ /\ cipher = "affine_bigram"
          /\ alphabet \in {AlphabetOfSize(m) : m \in BigramSizes}
          /\ a \in 0..MaxA /\ b \in (-MaxB)..MaxB
          /\ key = <<>> /\ crossing \in BOOLEAN
       \/ /\ cipher = "vigenere"
          /\ alphabet \in {AlphabetOfSize(m) : m \in VigenereSizes}
          /\ a = 1 /\ b = 0
          /\ key \in SeqUpTo(SymbolsFor(alphabet), MaxKeyLen) /\ crossing = FALSE
    /\ text \in SeqUpTo(SymbolsFor(alphabet), MaxLen)
    /\ pc = "start"
    /\ enc = Pending /\ dinput = <<>> /\ dec = Pending

\* The text decrypt is called on, and the position the call leaves
DecryptCall(d) ==
    \/ /\ pc = "start"
       /\ d = text
       /\ pc' = "decrypted"
    \/ /\ pc = "encrypted"
       /\ enc.err = ""
       /\ d = enc.text
       /\ pc' = "round_trip"

AffineEncrypt ==
    /\ cipher = "affine" /\ pc = "start"
    /\ enc' = affine_encrypt(alphabet, text, a, b)
    /\ pc' = "encrypted"
    /\ UNCHANGED <<cipher, alphabet, text, a, b, key, crossing, dinput, dec>>
    /\ UNCHANGED <<egcdVars, critVars, suiteVars, counterVars, helperVars>>

AffineDecrypt ==
    /\ cipher = "affine"
    /\ \E d \in {text, enc.text} :
          /\ DecryptCall(d)
          /\ dinput' = d
          /\ dec' = affine_decrypt(alphabet, d, a, b)
    /\ UNCHANGED <<cipher, alphabet, text, a, b, key, crossing, enc>>
    /\ UNCHANGED <<egcdVars, critVars, suiteVars, counterVars, helperVars>>

AffineBigramEncrypt ==
    /\ cipher = "affine_bigram" /\ pc = "start"
    /\ enc' = affine_bigram_encrypt(alphabet, text, a, b, crossing, None)
    /\ pc' = "encrypted"
    /\ UNCHANGED <<cipher, alphabet, text, a, b, key, crossing, dinput, dec>>
    /\ UNCHANGED <<egcdVars, critVars, suiteVars, counterVars, helperVars>>

AffineBigramDecrypt ==
    /\ cipher = "affine_bigram"
    /\ \E d \in {text, enc.text} :
          /\ DecryptCall(d)
          /\ dinput' = d
          /\ dec' = affine_bigram_decrypt(alphabet, d, a, b, crossing)
    /\ UNCHANGED <<cipher, alphabet, text, a, b, key, crossing, enc>>
    /\ UNCHANGED <<egcdVars, critVars, suiteVars, counterVars, helperVars>>

VigenereEncrypt ==
    /\ cipher = "vigenere" /\ pc = "start"
    /\ enc' = vigenere_encrypt(alphabet, text, key)
    /\ pc' = "encrypted"
    /\ UNCHANGED <<cipher, alphabet, text, a, b, key, crossing, dinput, dec>>
    /\ UNCHANGED <<egcdVars, critVars, suiteVars, counterVars, helperVars>>

VigenereDecrypt ==
    /\ cipher = "vigenere"
    /\ \E d \in {text, enc.text} :
          /\ DecryptCall(d)
          /\ dinput' = d
          /\ dec' = vigenere_decrypt(alphabet, d, key)
    /\ UNCHANGED <<cipher, alphabet, text, a, b, key, crossing, enc>>
    /\ UNCHANGED <<egcdVars, critVars, suiteVars, counterVars, helperVars>>

----------------------------------------------------------------------------
(* Calls of euclidean_algorithm_extended on non-negative arguments *)

EgcdInit == ea \in 0..MaxE /\ eb \in 0..MaxE /\ eres = <<>>

Egcd ==
    /\ eres = <<>>
    /\ eres' = euclidean_algorithm_extended(ea, eb)
    /\ UNCHANGED <<ea, eb>>
    /\ UNCHANGED <<cipherVars, critVars, suiteVars, counterVars, helperVars>>

----------------------------------------------------------------------------
(* Criterion 1.0 *)

\* An optional list argument: None, or a list
NoneList == [isNone |-> TRUE, val |-> <<>>]
SomeList(l) == [isNone |-> FALSE, val |-> l]

\* The result of a criterion: a {length: (plain_count, cipher_count)} dict,
\* or an exception
Returned(d) == [err |-> "", value |-> d]
Raised(e) == [err |-> e, value |-> <<>>]

\* bg in _text for strings: bg occurs as a contiguous substring
Substring(bg, _text) ==
    \E i \in 0..(Len(_text) - Len(bg)) : SubSeq(_text, i + 1, i + Len(bg)) = bg

\* any(bg in _text for bg in forbidden)
AnyBigramIn(forbidden, _text) ==
    \E j \in 1..Len(forbidden) : Substring(forbidden[j], _text)

\* any(ch in forbidden for ch in _text)
AnySymbolIn(forbidden, _text) ==
    \E i \in 1..Len(_text) : In(_text[i], forbidden)

\* the value of a counter incremented once per text whose test (hits[i]) is true
CountWhere(hits) == Cardinality({i \in 1..Len(hits) : hits[i]})

criteria_1_0_one_counter(_generated_texts, _forbidden_symbols, _forbidden_bigrams) ==
    LET bigrams == ~_forbidden_bigrams.isNone
        forbidden == IF bigrams THEN _forbidden_bigrams.val ELSE _forbidden_symbols.val
        Found(t) == IF bigrams THEN AnyBigramIn(forbidden, t)
                               ELSE AnySymbolIn(forbidden, t)
        PlainHits(texts) == [i \in 1..Len(texts) |-> Found(texts[i].plaintext)]
        CipherHits(texts) == [i \in 1..Len(texts) |-> Found(texts[i].ciphertext)]
    IN  Returned([L \in DOMAIN _generated_texts |->
                    <<CountWhere(PlainHits(_generated_texts[L]))
                        + CountWhere(CipherHits(_generated_texts[L])),
                      CountWhere(CipherHits(_generated_texts[L]))>>])

criteria_1_0_short_circuit(_generated_texts, _forbidden_symbols, _forbidden_bigrams) ==
    LET bigrams == ~_forbidden_bigrams.isNone
        forbidden == IF bigrams THEN _forbidden_bigrams.val ELSE _forbidden_symbols.val
        Found(t) == IF bigrams THEN AnyBigramIn(forbidden, t)
                               ELSE AnySymbolIn(forbidden, t)
        PlainHits(texts) == [i \in 1..Len(texts) |-> Found(texts[i].plaintext)]
        CipherHits(texts) == [i \in 1..Len(texts) |->
                                ~Found(texts[i].plaintext) /\ Found(texts[i].ciphertext)]
    IN  Returned([L \in DOMAIN _generated_texts |->
                    <<CountWhere(PlainHits(_generated_texts[L])),
                      CountWhere(CipherHits(_generated_texts[L]))>>])

criteria_1_0(_generated_texts, _forbidden_symbols, _forbidden_bigrams) ==
    LET bigrams == ~_forbidden_bigrams.isNone
        forbidden == IF bigrams THEN _forbidden_bigrams.val ELSE _forbidden_symbols.val
        Found(t) == IF bigrams THEN AnyBigramIn(forbidden, t)
                               ELSE AnySymbolIn(forbidden, t)
        PlainHits(texts) == [i \in 1..Len(texts) |-> Found(texts[i].plaintext)]
        CipherHits(texts) == [i \in 1..Len(texts) |-> Found(texts[i].ciphertext)]
        \* `ch in None` raises TypeError as soon as a text has a symbol
        typeError ==
            /\ ~bigrams /\ _forbidden_symbols.isNone
            /\ \E L \in DOMAIN _generated_texts :
                  \E i \in 1..Len(_generated_texts[L]) :
                      \/ Len(_generated_texts[L][i].plaintext) > 0
                      \/ Len(_generated_texts[L][i].ciphertext) > 0
    IN  IF typeError THEN Raised("TypeError")
        ELSE Returned([L \in DOMAIN _generated_texts |->
                        <<CountWhere(PlainHits(_generated_texts[L])),
                          CountWhere(CipherHits(_generated_texts[L]))>>])

----------------------------------------------------------------------------
(* Error rates *)

\* a float, as the rational num / den it rounds
Frac(num, den) == [num |-> num, den |-> den]

\* dict(zip(ks, vs)): pairs are inserted in order, a later pair replaces an
\* earlier one with the same key, zip stops at the shorter list
RECURSIVE DictZipUpTo(_, _, _)
DictZipUpTo(ks, vs, k) ==
    IF k = 0 THEN <<>>
    ELSE LET d == DictZipUpTo(ks, vs, k - 1)
         IN  [x \in DOMAIN d \cup {ks[k]} |-> IF x = ks[k] THEN vs[k] ELSE d[x]]

DictZip(ks, vs) ==
    DictZipUpTo(ks, vs, IF Len(ks) <= Len(vs) THEN Len(ks) ELSE Len(vs))

\* d.get(k, default)
DictGet(d, k, default) == IF k \in DOMAIN d THEN d[k] ELSE default

calc_error_rates_beta_from_accepts(_criteria_result, _len_texts, _count_texts) ==
    LET n_by_L == DictZip(_len_texts, _count_texts)
    IN  [L \in DOMAIN _criteria_result |->
            LET plain_accept_H1 == _criteria_result[L][1]
                cipher_accept_H0 == _criteria_result[L][2]
                n_tests == DictGet(n_by_L, L, 0)
            IN  [alpha |-> IF n_tests # 0 THEN Frac(plain_accept_H1, n_tests)
                                          ELSE Frac(0, 1),
                 beta  |-> IF n_tests # 0 THEN Frac(n_tests + cipher_accept_H0, n_tests)
                                          ELSE Frac(0, 1)]]

calc_error_rates_from_criteria(_criteria_result, _len_texts, _count_texts) ==
    LET n_by_L == DictZip(_len_texts, _count_texts)
    IN  [L \in DOMAIN _criteria_result |->
            LET plain_accept_H1 == _criteria_result[L][1]
                cipher_accept_H0 == _criteria_result[L][2]
                n_tests == DictGet(n_by_L, L, 0)
            IN  [alpha |-> IF n_tests # 0 THEN Frac(plain_accept_H1, n_tests)
                                          ELSE Frac(0, 1),
                 beta  |-> IF n_tests # 0 THEN Frac(n_tests - cipher_accept_H0, n_tests)
                                          ELSE Frac(0, 1)]]

----------------------------------------------------------------------------
(* Corpora, forbidden sets and plans the criteria and the evaluator run on *)

CorpusSyms == {"a", "z"}
ShortLens == {1, 2}

\* the {"plaintext": ..., "ciphertext": ...} dicts with both texts of L symbols
PairsOf(L) ==
    {[plaintext |-> p, ciphertext |-> c] : p \in [1..L -> CorpusSyms],
                                           c \in [1..L -> CorpusSyms]}

\* the corpora whose keys are D and that hold at most n pairs in all
RECURSIVE Corpora(_, _)
Corpora(D, n) ==
    IF D = {} THEN {<<>>}
    ELSE LET L == CHOOSE x \in D : TRUE
         IN  UNION {
               {[x \in DOMAIN rest \cup {L} |-> IF x = L THEN lst ELSE rest[x]] :
                    rest \in Corpora(D \ {L}, n - k), lst \in [1..k -> PairsOf(L)]}
               : k \in 0..n}

\* a list holding the elements of the set S
RECURSIVE ListOf(_)
ListOf(S) ==
    IF S = {} THEN <<>>
    ELSE LET x == CHOOSE y \in S : TRUE IN <<x>> \o ListOf(S \ {x})

Bigrams == [1..2 -> CorpusSyms]

CritInit ==
    /\ \/ \E D \in {{}, {1}, ShortLens} : generated_texts \in Corpora(D, MaxPairs)
       \/ \E L \in 0..MaxTextLen : \E pair \in PairsOf(L) :
             generated_texts = [x \in {L} |-> <<pair>>]
    /\ \/ /\ forbidden_bigrams = NoneList
          /\ forbidden_symbols \in {NoneList} \cup {SomeList(ListOf(S)) : S \in SUBSET CorpusSyms}
       \/ /\ forbidden_symbols = NoneList
          /\ forbidden_bigrams \in {SomeList(ListOf(S)) :
                                    S \in {T \in SUBSET Bigrams : Cardinality(T) <= 2}}
    /\ len_texts \in SeqUpTo(ShortLens, 1)
    /\ count_texts \in [1..Len(len_texts) -> 0..MaxCount]
    /\ criteria_result = Raised("pending")
    /\ error_rates = <<>>
    /\ stage = "start"

\* Concrete scenario C of the specification
ScenarioC ==
    /\ generated_texts = [x \in {3} |->
                            <<[plaintext |-> <<"a", "b", "z">>,
                               ciphertext |-> <<"a", "b", "a">>]>>]
    /\ forbidden_symbols = SomeList(<<"z">>)
    /\ forbidden_bigrams = NoneList
    /\ len_texts = <<3>> /\ count_texts = <<1>>
    /\ criteria_result = Raised("pending")
    /\ error_rates = <<>>
    /\ stage = "start"

\* A caller hands the evaluator a result and a plan of its own making
RatesInit ==
    /\ generated_texts = <<>>
    /\ forbidden_symbols = NoneList /\ forbidden_bigrams = NoneList
    /\ \E D \in SUBSET ShortLens :
          criteria_result \in
              {Returned(f) : f \in [D -> (0..MaxCount) \X (0..MaxCount)]}
    /\ len_texts \in SeqUpTo(ShortLens, MaxPlan)
    /\ count_texts \in SeqUpTo(0..MaxCount, MaxPlan)
    /\ error_rates = <<>>
    /\ stage = "evaluated"

\* Concrete scenario D of the specification
ScenarioD ==
    /\ generated_texts = <<>>
    /\ forbidden_symbols = NoneList /\ forbidden_bigrams = NoneList
    /\ criteria_result = Returned([x \in {10} |-> <<3, 7>>])
    /\ len_texts = <<10>> /\ count_texts = <<10>>
    /\ error_rates = <<>>
    /\ stage = "evaluated"

Criteria_1_0 ==
    /\ stage = "start"
    /\ criteria_result' = criteria_1_0(generated_texts, forbidden_symbols, forbidden_bigrams)
    /\ stage' = "evaluated"
    /\ UNCHANGED <<generated_texts, forbidden_symbols, forbidden_bigrams,
                   len_texts, count_texts, error_rates>>
    /\ UNCHANGED <<cipherVars, egcdVars, suiteVars, counterVars, helperVars>>

\* calc_error_rates_from_criteria on the result a criterion returned
CalcErrorRates ==
    /\ stage = "evaluated"
    /\ criteria_result.err = ""
    /\ error_rates' = calc_error_rates_from_criteria(criteria_result.value,
                                                     len_texts, count_texts)
    /\ stage' = "rated"
    /\ UNCHANGED <<generated_texts, forbidden_symbols, forbidden_bigrams,
                   criteria_result, len_texts, count_texts>>
    /\ UNCHANGED <<cipherVars, egcdVars, suiteVars, counterVars, helperVars>>

CritIdle ==
    /\ generated_texts = <<>>
    /\ forbidden_symbols = NoneList /\ forbidden_bigrams = NoneList
    /\ criteria_result = Raised("pending")
    /\ len_texts = <<>> /\ count_texts = <<>>
    /\ error_rates = <<>> /\ stage = "idle"

----------------------------------------------------------------------------
(* Specifications *)

InitCipher == CipherInit /\ EgcdIdle /\ CritIdle /\ SuiteIdle /\ CounterIdle /\ HelperIdle

NextCipher ==
    \/ AffineEncrypt \/ AffineDecrypt
    \/ AffineBigramEncrypt \/ AffineBigramDecrypt
    \/ VigenereEncrypt \/ VigenereDecrypt

SpecCipher == InitCipher /\ [][NextCipher]_vars

InitEgcd == EgcdInit /\ CipherIdle /\ CritIdle /\ SuiteIdle /\ CounterIdle /\ HelperIdle

NextEgcd == Egcd

SpecEgcd == InitEgcd /\ [][NextEgcd]_vars

InitRates == (RatesInit \/ ScenarioD) /\ CipherIdle /\ EgcdIdle /\ SuiteIdle /\ CounterIdle /\ HelperIdle

NextRates == CalcErrorRates

SpecRates == InitRates /\ [][NextRates]_vars

InitCrit == (CritInit \/ ScenarioC) /\ CipherIdle /\ EgcdIdle /\ SuiteIdle /\ CounterIdle /\ HelperIdle

NextCrit == Criteria_1_0 \/ CalcErrorRates

SpecCrit == InitCrit /\ [][NextCrit]_vars

----------------------------------------------------------------------------
(* Vocabulary of the properties *)

\* gcd(x, M) = 1, for x >= 0 and M >= 2, by the definition of a common divisor
Coprime(x, M) == ~\E d \in 2..M : x % d = 0 /\ M % d = 0

\* g is the greatest common divisor of x and y (gcd(0, 0) = 0)
IsGcd(g, x, y) ==
    IF x = 0 /\ y = 0 THEN g = 0
    ELSE /\ g >= 1 /\ x % g = 0 /\ y % g = 0
         /\ \A d \in (g + 1)..(x + y) : ~(x % d = 0 /\ y % d = 0)

\* every symbol of t belongs to the alphabet
Over(t, _alphabet) == \A i \in 1..Len(t) : \E j \in 1..Len(_alphabet) : _alphabet[j] = t[i]

\* the modulus of the affine key: m, or m^2 for the bigram cipher
Modulus == IF cipher = "affine_bigram" THEN Len(alphabet) * Len(alphabet) ELSE Len(alphabet)

\* position of a symbol of the alphabet, 0-based
PosOf(ch) == CHOOSE i \in 0..(Len(alphabet) - 1) : alphabet[i + 1] = ch

----------------------------------------------------------------------------
(* C1: Affine round-trip.  For every key (a, b) with gcd(a, m) = 1, b any    *)
(* integer, and every text over the alphabet, encrypt returns a text and     *)
(* decrypt of that text with the same key returns the original text.         *)

C1_AffineRoundTrip ==
    (cipher = "affine" /\ Coprime(a, Len(alphabet)) /\ Over(text, alphabet)) =>
        /\ pc = "encrypted" => enc.err = "" /\ Len(enc.text) = Len(text)
        /\ pc = "round_trip" => dec = Ok(text)

C1_Witness ==
    /\ cipher = "affine" /\ pc = "round_trip"
    /\ Len(alphabet) = 5 /\ a = 7 /\ b < 0
    /\ Len(text) >= 3 /\ enc.text # text
    /\ dec = Ok(text)

(* C2: Affine-bigram round-trip in non-overlapping mode.  For every key      *)
(* (a, b) with gcd(a, m^2) = 1 and every even-length text over the alphabet, *)
(* decrypt(encrypt(text)) with crossing = False on both sides is the text.   *)

C2_BigramRoundTripNonCrossing ==
    (/\ cipher = "affine_bigram" /\ ~crossing
     /\ Coprime(a, Len(alphabet) * Len(alphabet))
     /\ Over(text, alphabet) /\ Len(text) % 2 = 0) =>
        /\ pc = "encrypted" => enc.err = "" /\ Len(enc.text) = Len(text)
        /\ pc = "round_trip" => dec = Ok(text)

C2_Witness ==
    /\ cipher = "affine_bigram" /\ ~crossing /\ pc = "round_trip"
    /\ Len(alphabet) = 3 /\ a = 2 /\ b # 0
    /\ Len(text) = 4 /\ enc.text # text
    /\ dec = Ok(text)

(* C3: Affine-bigram round-trip in crossing mode.  For every key (a, b) with *)
(* gcd(a, m^2) = 1 and every even-length text of length >= 2 over the        *)
(* alphabet, decrypt(encrypt(text)) with crossing = True on both sides is    *)
(* the text.                                                                 *)

C3_BigramRoundTripCrossing ==
    (/\ cipher = "affine_bigram" /\ crossing
     /\ Coprime(a, Len(alphabet) * Len(alphabet))
     /\ Over(text, alphabet) /\ Len(text) % 2 = 0 /\ Len(text) >= 2
     /\ pc = "round_trip") =>
        dec = Ok(text)

(* C4: Polyalphabetic round-trip.  For every non-empty key over the alphabet *)
(* (shorter or longer than the text) and every text over the alphabet,       *)
(* encrypt shifts position i by the key symbol key[i mod len(key)] and       *)
(* decrypt(encrypt(text)) with the same key is the text.                     *)

C4_VigenereRoundTrip ==
    (/\ cipher = "vigenere" /\ Len(key) >= 1
     /\ Over(key, alphabet) /\ Over(text, alphabet)) =>
        /\ pc = "encrypted" =>
              /\ enc.err = "" /\ Len(enc.text) = Len(text)
              /\ \A i \in 0..(Len(text) - 1) :
                    PosOf(enc.text[i + 1]) =
                        (PosOf(text[i + 1]) + PosOf(key[(i % Len(key)) + 1]))
                        % Len(alphabet)
        /\ pc = "round_trip" => dec = Ok(text)

C4_Witness ==
    /\ cipher = "vigenere" /\ pc = "round_trip"
    /\ Len(key) = 2 /\ Len(text) = 4 /\ key[1] # key[2]
    /\ Over(key, alphabet) /\ PosOf(key[1]) # 0 /\ PosOf(key[2]) # 0
    /\ dec = Ok(text)

(* C5: Invertibility precondition.  For every a in [0, M), M = m for the     *)
(* affine cipher and m^2 for the affine-bigram cipher, encrypt and decrypt   *)
(* end with the invalid-key error, returning no text, exactly when           *)
(* gcd(a, M) # 1; whatever the text is: empty, or holding a symbol that is   *)
(* not in the alphabet.                                                      *)

C5_InvalidKey ==
    (cipher \in {"affine", "affine_bigram"} /\ a < Modulus) =>
        /\ pc = "encrypted" =>
              /\ enc.err = "InvalidKey" <=> ~Coprime(a, Modulus)
              /\ ~Coprime(a, Modulus) => enc.text = <<>>
        /\ pc \in {"decrypted", "round_trip"} =>
              /\ dec.err = "InvalidKey" <=> ~Coprime(a, Modulus)
              /\ ~Coprime(a, Modulus) => dec.text = <<>>

C5_Witness ==
    /\ cipher = "affine_bigram" /\ pc = "encrypted"
    /\ Len(alphabet) = 3 /\ a = 6
    /\ ~Over(text, alphabet)
    /\ enc.err = "InvalidKey"

(* C6: euclidean_algorithm_extended(a, b), a >= 0 and b >= 0, returns        *)
(* (g, x, y) with g = gcd(a, b) and a*x + b*y = g; for a = 0 it returns      *)
(* (b, 0, 1); and when g = 1 and b >= 2, x mod b lies in [0, b) and          *)
(* (a * (x mod b)) mod b = 1, also for a negative x.                         *)

C6_ExtendedEuclid ==
    eres # <<>> =>
        LET g == eres[1]
            x == eres[2]
            y == eres[3]
        IN  /\ IsGcd(g, ea, eb)
            /\ ea * x + eb * y = g
            /\ ea = 0 => eres = <<eb, 0, 1>>
            /\ (g = 1 /\ eb >= 2) =>
                  /\ x % eb \in 0..(eb - 1)
                  /\ (ea * (x % eb)) % eb = 1

C6_Witness ==
    /\ eres # <<>>
    /\ eres[1] = 1 /\ eb >= 2 /\ eres[2] < 0
    /\ (ea * (eres[2] % eb)) % eb = 1

(* C7: Unknown-symbol failure.  With a valid key, encrypt and decrypt of     *)
(* each cipher on a text of any length that holds a symbol outside the       *)
(* alphabet, and the Vigenere encrypt and decrypt on any text with a key     *)
(* that holds a symbol outside the alphabet, end in an error.                *)

C7_UnknownSymbolFails ==
    LET validKey == IF cipher = "vigenere" THEN Len(key) >= 1
                                           ELSE Coprime(a, Modulus)
        unknown == \/ ~Over(text, alphabet)
                   \/ cipher = "vigenere" /\ ~Over(key, alphabet)
    IN  (validKey /\ unknown) =>
            /\ pc = "encrypted" => enc.err # ""
            /\ pc = "decrypted" => dec.err # ""

----------------------------------------------------------------------------
(* Vocabulary of the error-rate properties *)

\* the count paired with L in zip(len_texts, count_texts), 0 when L is not
\* listed; of several pairs with the same length the dict keeps the last
PlanCount(L) ==
    LET k == IF Len(len_texts) <= Len(count_texts) THEN Len(len_texts)
                                                   ELSE Len(count_texts)
        listed == {i \in 1..k : len_texts[i] = L}
    IN  IF listed = {} THEN 0
        ELSE count_texts[CHOOSE i \in listed : \A j \in listed : j <= i]

\* two floats are the same number
SameNumber(f, num, den) == f.den # 0 /\ f.num * den = num * f.den

\* a float lies in [0, 1]
InUnitInterval(f) == f.den > 0 /\ 0 <= f.num /\ f.num <= f.den

\* the text is a forbidden-symbol hit: some position holds a forbidden symbol
HoldsForbiddenSymbol(t) ==
    \E i \in 1..Len(t) : \E j \in 1..Len(forbidden_symbols.val) :
        forbidden_symbols.val[j] = t[i]

\* the text is a forbidden-bigram hit: two adjacent positions hold a forbidden bigram
HoldsForbiddenBigram(t) ==
    \E i \in 1..(Len(t) - 1) : \E j \in 1..Len(forbidden_bigrams.val) :
        forbidden_bigrams.val[j] = <<t[i], t[i + 1]>>

HoldsForbidden(t) ==
    IF forbidden_bigrams.isNone THEN HoldsForbiddenSymbol(t) ELSE HoldsForbiddenBigram(t)

\* how many pairs under L have a hit in the given text of the pair
PairsWithPlainHit(L) ==
    Cardinality({i \in 1..Len(generated_texts[L]) :
                    HoldsForbidden(generated_texts[L][i].plaintext)})
PairsWithCipherHit(L) ==
    Cardinality({i \in 1..Len(generated_texts[L]) :
                    HoldsForbidden(generated_texts[L][i].ciphertext)})

----------------------------------------------------------------------------
(* C8: calc_error_rates_from_criteria.  For every length L of                *)
(* criteria_result with counts (p, c) and n the count paired with L (0 when  *)
(* L is not listed), the output for L is alpha = p / n and                   *)
(* beta = (n - c) / n when n > 0 and alpha = beta = 0.0 when n = 0; the      *)
(* output has exactly the lengths of criteria_result; {10: (3, 7)} with      *)
(* len_texts = [10], count_texts = [10] gives alpha = 0.3, beta = 0.3.       *)

C8_ErrorRates ==
    stage = "rated" =>
        /\ DOMAIN error_rates = DOMAIN criteria_result.value
        /\ \A L \in DOMAIN criteria_result.value :
              LET p == criteria_result.value[L][1]
                  c == criteria_result.value[L][2]
                  n == PlanCount(L)
              IN  IF n > 0
                  THEN /\ SameNumber(error_rates[L].alpha, p, n)
                       /\ SameNumber(error_rates[L].beta, n - c, n)
                  ELSE /\ error_rates[L].alpha = Frac(0, 1)
                       /\ error_rates[L].beta = Frac(0, 1)
        /\ (/\ criteria_result.value = [x \in {10} |-> <<3, 7>>]
            /\ len_texts = <<10>> /\ count_texts = <<10>>) =>
              /\ SameNumber(error_rates[10].alpha, 3, 10)
              /\ SameNumber(error_rates[10].beta, 3, 10)

C8_Witness ==
    /\ stage = "rated"
    /\ criteria_result.value = [x \in {10} |-> <<3, 7>>]
    /\ len_texts = <<10>> /\ count_texts = <<10>>
    /\ SameNumber(error_rates[10].alpha, 3, 10)
    /\ SameNumber(error_rates[10].beta, 3, 10)

(* C9: Error-rate bounds.  For every criteria_result a criterion produced    *)
(* over a corpus and every len_texts / count_texts with positive sample      *)
(* counts, every resulting alpha and beta lies in [0, 1].                    *)

PositiveCounts == \A i \in 1..Len(count_texts) : count_texts[i] > 0

RatesInUnitInterval ==
    \A L \in DOMAIN error_rates :
        InUnitInterval(error_rates[L].alpha) /\ InUnitInterval(error_rates[L].beta)

C9_ErrorRateBounds_AsClaimed ==
    (stage = "rated" /\ PositiveCounts) => RatesInUnitInterval

(* C9, amended: ... with positive sample counts in which the count paired    *)
(* with each length L of the corpus is at least the number of pairs stored   *)
(* under L, or L is not listed, every resulting alpha and beta lies in       *)
(* [0, 1].                                                                   *)

CountsCoverCorpus ==
    \A L \in DOMAIN generated_texts :
        PlanCount(L) = 0 \/ PlanCount(L) >= Len(generated_texts[L])

C9_ErrorRateBounds ==
    (stage = "rated" /\ PositiveCounts /\ CountsCoverCorpus) => RatesInUnitInterval

C9_Witness ==
    /\ stage = "rated" /\ PositiveCounts /\ CountsCoverCorpus
    /\ \E L \in DOMAIN error_rates :
          /\ Len(generated_texts[L]) = 2 /\ PlanCount(L) = 2
          /\ SameNumber(error_rates[L].alpha, 1, 1)
          /\ SameNumber(error_rates[L].beta, 1, 2)

(* C10: Criterion 1.0.  For every corpus and forbidden set, the plain (resp. *)
(* cipher) count for length L is the number of pairs under L whose plaintext *)
(* (resp. ciphertext) holds a forbidden symbol at some position in unigram   *)
(* mode, a forbidden bigram at some two adjacent positions in bigram mode;   *)
(* forbidden_symbols = ['z'] and the one length-3 plaintext 'abz' give       *)
(* plain_count = 1.                                                          *)

C10_Criterion_1_0 ==
    (stage # "start" /\ ~(forbidden_symbols.isNone /\ forbidden_bigrams.isNone)) =>
        /\ criteria_result.err = ""
        /\ DOMAIN criteria_result.value = DOMAIN generated_texts
        /\ \A L \in DOMAIN generated_texts :
              criteria_result.value[L] = <<PairsWithPlainHit(L), PairsWithCipherHit(L)>>
        /\ (/\ forbidden_symbols = SomeList(<<"z">>) /\ forbidden_bigrams.isNone
            /\ DOMAIN generated_texts = {3}
            /\ Len(generated_texts[3]) = 1
            /\ generated_texts[3][1].plaintext = <<"a", "b", "z">>) =>
              criteria_result.value[3][1] = 1

C10_Witness ==
    /\ stage = "evaluated"
    /\ ~forbidden_bigrams.isNone /\ Len(forbidden_bigrams.val) = 2
    /\ \E L \in DOMAIN generated_texts :
          /\ Len(generated_texts[L]) = 2
          /\ criteria_result.value[L] = <<1, 2>>

----------------------------------------------------------------------------
(* Counters of helper.py *)

\* the keys of the dict the counting loop fills, in the order of insertion
KeysInOrder(items) ==
    LET F[i \in 0..Len(items)] ==
            IF i = 0 THEN <<>>
            ELSE IF \E k \in 1..(i - 1) : items[k] = items[i] THEN F[i - 1]
            ELSE Append(F[i - 1], items[i])
    IN  F[Len(items)]

\* sorted(counts.items(), key=count, reverse=True): the sort is stable, so
\* keys of equal count keep the order of insertion
SortedCounts(items) ==
    LET ks == KeysInOrder(items)
        cnt(p) == Cardinality({i \in 1..Len(items) : items[i] = ks[p]})
        Rank(p) == 1 + Cardinality({q \in 1..Len(ks) :
                        cnt(q) > cnt(p) \/ (cnt(q) = cnt(p) /\ q < p)})
    IN  [r \in 1..Len(ks) |->
            LET p == CHOOSE q \in 1..Len(ks) : Rank(q) = r
            IN  <<ks[p], cnt(p)>>]

\* the sum of the counts of a table [(l-gram, count), ...]
RECURSIVE SumCounts(_)
SumCounts(table) ==
    IF table = <<>> THEN 0 ELSE table[1][2] + SumCounts(Tail(table))

symbol_count(_text) == SortedCounts(_text)

\* the counter pairing the last symbol with the first one
bigram_count_crossing_wrap_around(_text) ==
    LET n == Len(_text)
        pairs == [i \in 1..n |-> <<_text[i], _text[(i % n) + 1]>>]
    IN  IF n = 1 THEN Raised("IndexError")
        ELSE Returned(SortedCounts(pairs))

\* The loop pairs the symbol at 0-based position i with _text[step], where
\* step starts at 1 and stops growing at len(_text) - 1; _text[1] does not
\* exist in a text of one symbol.
bigram_count_crossing(_text) ==
    LET n == Len(_text)
        step(i) == IF i + 1 < n - 1 THEN i + 1 ELSE n - 1
        pairs == [i \in 1..n |-> <<_text[i], _text[step(i - 1) + 1]>>]
    IN  IF n = 1 THEN Raised("IndexError")
        ELSE Returned(SortedCounts(pairs))

----------------------------------------------------------------------------
(* Criteria 1.1, 1.2 and 1.3.  A frequency is an integer number of          *)
(* thousandths (helper.symbol_frequency rounds to three decimals), and      *)
(* count / total is compared with it exactly.                                *)

\* the mode chosen by `forbidden_bigrams is not None`, as criteria 1.0 and 1.1 do
Truthy_is_not_None(lst) == ~lst.isNone

\* `if forbidden_bigrams:` -- the list is neither None nor empty
Truthy(lst) == ~lst.isNone /\ Len(lst.val) > 0

\* ref_freq.get(x, 0) of ref_freq = dict(table): the last entry for x wins
RefFreqGet(table, x) ==
    LET hits == {i \in 1..Len(table) : table[i][1] = x}
    IN  IF hits = {} THEN 0
        ELSE table[CHOOSE i \in hits : \A k \in hits : k <= i][2]

\* the l-grams at the positions of a text: its symbols, or text[i:i+2] for
\* i in range(len(text) - 1)
SymbolsAt(_text) == _text
BigramsAt(_text) == [i \in 1..(IF Len(_text) > 0 THEN Len(_text) - 1 ELSE 0) |->
                        <<_text[i], _text[i + 1]>>]

\* how many positions of lgrams hold x
Occurrences(lgrams, x) == Cardinality({i \in 1..Len(lgrams) : lgrams[i] = x})

\* how many positions of lgrams hold an element of the list forbidden
ForbiddenPositions(lgrams, forbidden) ==
    Cardinality({i \in 1..Len(lgrams) : In(lgrams[i], forbidden)})

\* count / total > freq / 1000 for floats (total # 0; 0 / -1 is -0.0)
FloatGreater(count, total, freq) ==
    IF total > 0 THEN count * 1000 > freq * total
                 ELSE count * 1000 < freq * total

\* the pairs of a corpus, and whether some pair holds a non-empty text
AnyPair(_generated_texts) ==
    \E L \in DOMAIN _generated_texts : Len(_generated_texts[L]) > 0
AnySymbol(_generated_texts) ==
    \E L \in DOMAIN _generated_texts : \E i \in 1..Len(_generated_texts[L]) :
        \/ Len(_generated_texts[L][i].plaintext) > 0
        \/ Len(_generated_texts[L][i].ciphertext) > 0

\* criteria_1_1 with the ciphertext decided on the pair's plaintext
criteria_1_1_shared_text(_generated_texts, _kp, _forbidden_symbols, _forbidden_bigrams) ==
    LET bigram_mode == ~_forbidden_bigrams.isNone
        forbidden == IF bigram_mode THEN _forbidden_bigrams.val
                                    ELSE _forbidden_symbols.val
        Found(t) == {forbidden[i] : i \in {k \in 1..Len(forbidden) :
                        IF bigram_mode THEN Substring(forbidden[k], t)
                                       ELSE In(forbidden[k], t)}}
        PlainHits(texts) ==
            [i \in 1..Len(texts) |-> Cardinality(Found(texts[i].plaintext)) >= _kp]
    IN  IF ~bigram_mode /\ _forbidden_symbols.isNone /\ AnyPair(_generated_texts)
        THEN Raised("TypeError")
        ELSE Returned([L \in DOMAIN _generated_texts |->
                        <<CountWhere(PlainHits(_generated_texts[L])),
                          CountWhere(PlainHits(_generated_texts[L]))>>])

\* criteria_1_1 counting every occurrence of a forbidden l-gram
criteria_1_1_occurrences(_generated_texts, _kp, _forbidden_symbols, _forbidden_bigrams) ==
    LET bigram_mode == ~_forbidden_bigrams.isNone
        forbidden == IF bigram_mode THEN _forbidden_bigrams.val
                                    ELSE _forbidden_symbols.val
        Lgrams(t) == IF bigram_mode THEN BigramsAt(t) ELSE SymbolsAt(t)
        Found(t) == ForbiddenPositions(Lgrams(t), forbidden)
        PlainHits(texts) ==
            [i \in 1..Len(texts) |-> Found(texts[i].plaintext) >= _kp]
        CipherHits(texts) ==
            [i \in 1..Len(texts) |-> Found(texts[i].ciphertext) >= _kp]
    IN  IF ~bigram_mode /\ _forbidden_symbols.isNone /\ AnyPair(_generated_texts)
        THEN Raised("TypeError")
        ELSE Returned([L \in DOMAIN _generated_texts |->
                        <<CountWhere(PlainHits(_generated_texts[L])),
                          CountWhere(CipherHits(_generated_texts[L]))>>])

criteria_1_1(_generated_texts, _kp, _forbidden_symbols, _forbidden_bigrams) ==
    LET bigram_mode == ~_forbidden_bigrams.isNone
        forbidden == IF bigram_mode THEN _forbidden_bigrams.val
                                    ELSE _forbidden_symbols.val
        \* {x for x in forbidden if x in text}
        Found(t) == {forbidden[i] : i \in {k \in 1..Len(forbidden) :
                        IF bigram_mode THEN Substring(forbidden[k], t)
                                       ELSE In(forbidden[k], t)}}
        PlainHits(texts) ==
            [i \in 1..Len(texts) |-> Cardinality(Found(texts[i].plaintext)) >= _kp]
        CipherHits(texts) ==
            [i \in 1..Len(texts) |-> Cardinality(Found(texts[i].ciphertext)) >= _kp]
    IN  \* iterating None raises TypeError at the first pair
        IF ~bigram_mode /\ _forbidden_symbols.isNone /\ AnyPair(_generated_texts)
        THEN Raised("TypeError")
        ELSE Returned([L \in DOMAIN _generated_texts |->
                        <<CountWhere(PlainHits(_generated_texts[L])),
                          CountWhere(CipherHits(_generated_texts[L]))>>])

\* criteria_1_2 accepting a frequency equal to the reference frequency
criteria_1_2_at_least(_generated_texts, _forbidden_symbols, _symbols_frequency, _forbidden_bigrams, _bigrams_frequency) ==
    LET bigram_mode == Truthy(_forbidden_bigrams)
        table == IF bigram_mode THEN _bigrams_frequency ELSE _symbols_frequency
        forbidden == IF bigram_mode THEN _forbidden_bigrams.val
                                    ELSE _forbidden_symbols.val
        Lgrams(t) == IF bigram_mode THEN BigramsAt(t) ELSE SymbolsAt(t)
        total(t) == IF bigram_mode THEN Len(t) - 1 ELSE Len(t)
        Exceeds(t) ==
            \E i \in 1..Len(Lgrams(t)) :
                /\ In(Lgrams(t)[i], forbidden)
                /\ Occurrences(Lgrams(t), Lgrams(t)[i]) * 1000
                      >= RefFreqGet(table.val, Lgrams(t)[i]) * total(t)
        PlainHits(texts) == [i \in 1..Len(texts) |-> Exceeds(texts[i].plaintext)]
        CipherHits(texts) == [i \in 1..Len(texts) |-> Exceeds(texts[i].ciphertext)]
    IN  IF table.isNone THEN Raised("TypeError")
        ELSE IF ~bigram_mode /\ _forbidden_symbols.isNone /\ AnySymbol(_generated_texts)
        THEN Raised("TypeError")
        ELSE Returned([L \in DOMAIN _generated_texts |->
                        <<CountWhere(PlainHits(_generated_texts[L])),
                          CountWhere(CipherHits(_generated_texts[L]))>>])

criteria_1_2(_generated_texts, _forbidden_symbols, _symbols_frequency, _forbidden_bigrams, _bigrams_frequency) ==
    LET bigram_mode == Truthy(_forbidden_bigrams)
        table == IF bigram_mode THEN _bigrams_frequency ELSE _symbols_frequency
        forbidden == IF bigram_mode THEN _forbidden_bigrams.val
                                    ELSE _forbidden_symbols.val
        Lgrams(t) == IF bigram_mode THEN BigramsAt(t) ELSE SymbolsAt(t)
        total(t) == IF bigram_mode THEN Len(t) - 1 ELSE Len(t)
        \* some found l-gram has cnt / total > ref_freq.get(x, 0)
        Exceeds(t) ==
            \E i \in 1..Len(Lgrams(t)) :
                /\ In(Lgrams(t)[i], forbidden)
                /\ FloatGreater(Occurrences(Lgrams(t), Lgrams(t)[i]), total(t),
                                RefFreqGet(table.val, Lgrams(t)[i]))
        PlainHits(texts) == [i \in 1..Len(texts) |-> Exceeds(texts[i].plaintext)]
        CipherHits(texts) == [i \in 1..Len(texts) |-> Exceeds(texts[i].ciphertext)]
    IN  \* dict(None) raises TypeError; so does `ch in None` at the first symbol
        IF table.isNone THEN Raised("TypeError")
        ELSE IF ~bigram_mode /\ _forbidden_symbols.isNone /\ AnySymbol(_generated_texts)
        THEN Raised("TypeError")
        ELSE Returned([L \in DOMAIN _generated_texts |->
                        <<CountWhere(PlainHits(_generated_texts[L])),
                          CountWhere(CipherHits(_generated_texts[L]))>>])

\* sum(ref_freq.get(x, 0) for x in forbidden)
RECURSIVE SumRefFreq(_, _)
SumRefFreq(table, forbidden) ==
    IF forbidden = <<>> THEN 0
    ELSE RefFreqGet(table, forbidden[1]) + SumRefFreq(table, Tail(forbidden))

\* criteria_1_3 counting each forbidden l-gram of a sequence once
criteria_1_3_distinct(_generated_texts, _forbidden_symbols, _symbols_frequency, _forbidden_bigrams, _bigrams_frequency) ==
    LET bigram_mode == Truthy(_forbidden_bigrams)
        table == IF bigram_mode THEN _bigrams_frequency ELSE _symbols_frequency
        forbidden == IF bigram_mode THEN _forbidden_bigrams.val
                                    ELSE _forbidden_symbols.val
        Kp == SumRefFreq(table.val, forbidden)
        Lgrams(t) == IF bigram_mode THEN BigramsAt(t) ELSE SymbolsAt(t)
        total(t) == IF bigram_mode THEN Len(t) - 1 ELSE Len(t)
        Found(t) == {Lgrams(t)[i] : i \in {k \in 1..Len(Lgrams(t)) :
                                              In(Lgrams(t)[k], forbidden)}}
        Exceeds(t) == FloatGreater(Cardinality(Found(t)), total(t), Kp)
        PlainHits(texts) == [i \in 1..Len(texts) |-> Exceeds(texts[i].plaintext)]
        CipherHits(texts) == [i \in 1..Len(texts) |-> Exceeds(texts[i].ciphertext)]
        zeroTotal ==
            \E L \in DOMAIN _generated_texts : \E i \in 1..Len(_generated_texts[L]) :
                \/ total(_generated_texts[L][i].plaintext) = 0
                \/ total(_generated_texts[L][i].ciphertext) = 0
    IN  IF table.isNone THEN Raised("TypeError")
        ELSE IF ~bigram_mode /\ _forbidden_symbols.isNone THEN Raised("TypeError")
        ELSE IF zeroTotal THEN Raised("ZeroDivisionError")
        ELSE Returned([L \in DOMAIN _generated_texts |->
                        <<CountWhere(PlainHits(_generated_texts[L])),
                          CountWhere(CipherHits(_generated_texts[L]))>>])

criteria_1_3(_generated_texts, _forbidden_symbols, _symbols_frequency, _forbidden_bigrams, _bigrams_frequency) ==
    LET bigram_mode == Truthy(_forbidden_bigrams)
        table == IF bigram_mode THEN _bigrams_frequency ELSE _symbols_frequency
        forbidden == IF bigram_mode THEN _forbidden_bigrams.val
                                    ELSE _forbidden_symbols.val
        Kp == SumRefFreq(table.val, forbidden)
        Lgrams(t) == IF bigram_mode THEN BigramsAt(t) ELSE SymbolsAt(t)
        total(t) == IF bigram_mode THEN Len(t) - 1 ELSE Len(t)
        Exceeds(t) == FloatGreater(ForbiddenPositions(Lgrams(t), forbidden), total(t), Kp)
        PlainHits(texts) == [i \in 1..Len(texts) |-> Exceeds(texts[i].plaintext)]
        CipherHits(texts) == [i \in 1..Len(texts) |-> Exceeds(texts[i].ciphertext)]
        \* Fp = ... / total divides by zero
        zeroTotal ==
            \E L \in DOMAIN _generated_texts : \E i \in 1..Len(_generated_texts[L]) :
                \/ total(_generated_texts[L][i].plaintext) = 0
                \/ total(_generated_texts[L][i].ciphertext) = 0
    IN  \* dict(None) and iterating None raise TypeError before the loop
        IF table.isNone THEN Raised("TypeError")
        ELSE IF ~bigram_mode /\ _forbidden_symbols.isNone THEN Raised("TypeError")
        ELSE IF zeroTotal THEN Raised("ZeroDivisionError")
        ELSE Returned([L \in DOMAIN _generated_texts |->
                        <<CountWhere(PlainHits(_generated_texts[L])),
                          CountWhere(CipherHits(_generated_texts[L]))>>])

----------------------------------------------------------------------------
(* Criterion 3.0.  An entropy is an integer number of thousandths of a bit. *)

\* -(c / n) * log2(c / n), in thousandths, for the counts of a short text
NegPLog2(c, n) ==
    LET rows == << <<0>>,
                   <<500, 0>>,
                   <<528, 390, 0>>,
                   <<500, 500, 311, 0>>,
                   <<464, 529, 442, 258, 0>>,
                   <<431, 528, 500, 390, 219, 0>> >>
    IN  rows[n][c]

RECURSIVE SumNegPLog2(_, _)
SumNegPLog2(table, n) ==
    IF table = <<>> THEN 0
    ELSE NegPLog2(table[1][2], n) + SumNegPLog2(Tail(table), n)

\* entropy_calculate on a non-empty table [(l-gram, count), ...]; the
\* entropy of bigrams is halved.  sequence[0][0] of an empty table raises.
entropy_calculate(sequence, bigram_keys) ==
    LET Hsum == SumNegPLog2(sequence, SumCounts(sequence))
    IN  IF bigram_keys THEN Hsum \div 2 ELSE Hsum

Abs(x) == IF x < 0 THEN 0 - x ELSE x

\* H and kH are a scalar or a dict {length: value}
Scalar(x) == [isDict |-> FALSE, val |-> x]
Dict(d) == [isDict |-> TRUE, val |-> d]

\* criteria_3_0 counting the sequences whose entropy is within k_H of H
criteria_3_0_within(_generated_texts, _H, _kH, _bigrams) ==
    LET \* H[length] raises KeyError when the dict lacks the length
        keyError(L) == \/ _H.isDict /\ L \notin DOMAIN _H.val
                       \/ _kH.isDict /\ L \notin DOMAIN _kH.val
        H_curr(L) == IF _H.isDict THEN _H.val[L] ELSE _H.val
        kH_curr(L) == IF _kH.isDict THEN _kH.val[L] ELSE _kH.val
        \* bigram_count_crossing raises on one symbol, entropy_calculate on
        \* the empty table of an empty text
        indexError(t) == IF _bigrams THEN Len(t) <= 1 ELSE Len(t) = 0
        Entropy(t) == IF _bigrams
                      THEN entropy_calculate(bigram_count_crossing(t).value, TRUE)
                      ELSE entropy_calculate(symbol_count(t), FALSE)
        Deviates(t, L) == Abs(Entropy(t) - H_curr(L)) <= kH_curr(L)
        PlainHits(texts, L) ==
            [i \in 1..Len(texts) |-> Deviates(texts[i].plaintext, L)]
        CipherHits(texts, L) ==
            [i \in 1..Len(texts) |-> Deviates(texts[i].ciphertext, L)]
        fails(L) == \/ keyError(L)
                    \/ \E i \in 1..Len(_generated_texts[L]) :
                          \/ indexError(_generated_texts[L][i].plaintext)
                          \/ indexError(_generated_texts[L][i].ciphertext)
    IN  IF \E L \in DOMAIN _generated_texts : fails(L)
        THEN \* the first failing length decides which exception ends the call
             LET L == CHOOSE x \in DOMAIN _generated_texts :
                        fails(x) /\ \A y \in DOMAIN _generated_texts : fails(y) => x <= y
             IN  IF keyError(L) THEN Raised("KeyError") ELSE Raised("IndexError")
        ELSE Returned([L \in DOMAIN _generated_texts |->
                        <<CountWhere(PlainHits(_generated_texts[L], L)),
                          CountWhere(CipherHits(_generated_texts[L], L))>>])

criteria_3_0(_generated_texts, _H, _kH, _bigrams) ==
    LET \* H[length] raises KeyError when the dict lacks the length
        keyError(L) == \/ _H.isDict /\ L \notin DOMAIN _H.val
                       \/ _kH.isDict /\ L \notin DOMAIN _kH.val
        H_curr(L) == IF _H.isDict THEN _H.val[L] ELSE _H.val
        kH_curr(L) == IF _kH.isDict THEN _kH.val[L] ELSE _kH.val
        \* bigram_count_crossing raises on one symbol, entropy_calculate on
        \* the empty table of an empty text
        indexError(t) == IF _bigrams THEN Len(t) <= 1 ELSE Len(t) = 0
        Entropy(t) == IF _bigrams
                      THEN entropy_calculate(bigram_count_crossing(t).value, TRUE)
                      ELSE entropy_calculate(symbol_count(t), FALSE)
        Deviates(t, L) == Abs(Entropy(t) - H_curr(L)) > kH_curr(L)
        PlainHits(texts, L) ==
            [i \in 1..Len(texts) |-> Deviates(texts[i].plaintext, L)]
        CipherHits(texts, L) ==
            [i \in 1..Len(texts) |-> Deviates(texts[i].ciphertext, L)]
        fails(L) == \/ keyError(L)
                    \/ \E i \in 1..Len(_generated_texts[L]) :
                          \/ indexError(_generated_texts[L][i].plaintext)
                          \/ indexError(_generated_texts[L][i].ciphertext)
    IN  IF \E L \in DOMAIN _generated_texts : fails(L)
        THEN \* the first failing length decides which exception ends the call
             LET L == CHOOSE x \in DOMAIN _generated_texts :
                        fails(x) /\ \A y \in DOMAIN _generated_texts : fails(y) => x <= y
             IN  IF keyError(L) THEN Raised("KeyError") ELSE Raised("IndexError")
        ELSE Returned([L \in DOMAIN _generated_texts |->
                        <<CountWhere(PlainHits(_generated_texts[L], L)),
                          CountWhere(CipherHits(_generated_texts[L], L))>>])

----------------------------------------------------------------------------
(* Criterion 5.1 *)

\* [x for x, _ in table][:j] for j >= 0
TopJ(table, _j) ==
    [i \in 1..(IF _j < Len(table) THEN _j ELSE Len(table)) |-> table[i][1]]

\* criteria_5_1 adding the hits of the ciphertexts to the plain count
criteria_5_1_one_counter(_generated_texts, _j, _kempt, _symbols_frequency, _bigrams_frequency) ==
    LET bigram_mode == Truthy(_bigrams_frequency)
        table == IF bigram_mode THEN _bigrams_frequency ELSE _symbols_frequency
        top == TopJ(table.val, _j)
        Lgrams(t) == IF bigram_mode THEN BigramsAt(t) ELSE SymbolsAt(t)
        present(t) == {Lgrams(t)[i] : i \in {k \in 1..Len(Lgrams(t)) : In(Lgrams(t)[k], top)}}
        f_empty(t) == _j - Cardinality(present(t))
        PlainHits(texts) == [i \in 1..Len(texts) |-> f_empty(texts[i].plaintext) >= _kempt]
        CipherHits(texts) == [i \in 1..Len(texts) |-> f_empty(texts[i].ciphertext) >= _kempt]
    IN  \* iterating None raises TypeError before the loop
        IF table.isNone THEN Raised("TypeError")
        ELSE Returned([L \in DOMAIN _generated_texts |->
                        <<CountWhere(PlainHits(_generated_texts[L]))
                            + CountWhere(CipherHits(_generated_texts[L])),
                          CountWhere(CipherHits(_generated_texts[L]))>>])

criteria_5_1(_generated_texts, _j, _kempt, _symbols_frequency, _bigrams_frequency) ==
    LET bigram_mode == Truthy(_bigrams_frequency)
        table == IF bigram_mode THEN _bigrams_frequency ELSE _symbols_frequency
        top == TopJ(table.val, _j)
        Lgrams(t) == IF bigram_mode THEN BigramsAt(t) ELSE SymbolsAt(t)
        present(t) == {Lgrams(t)[i] : i \in {k \in 1..Len(Lgrams(t)) : In(Lgrams(t)[k], top)}}
        f_empty(t) == _j - Cardinality(present(t))
        PlainHits(texts) == [i \in 1..Len(texts) |-> f_empty(texts[i].plaintext) >= _kempt]
        CipherHits(texts) == [i \in 1..Len(texts) |-> f_empty(texts[i].ciphertext) >= _kempt]
    IN  \* iterating None raises TypeError before the loop
        IF table.isNone THEN Raised("TypeError")
        ELSE Returned([L \in DOMAIN _generated_texts |->
                        <<CountWhere(PlainHits(_generated_texts[L])),
                          CountWhere(CipherHits(_generated_texts[L]))>>])

----------------------------------------------------------------------------
(* Structural criterion.  The compressors are libraries: a compressor is   *)
(* its name and the table of the ratios, in tenths, it gives the non-empty  *)
(* texts; the ratio of the empty text is 1.0.                                *)

Compressors == {"lzma", "deflate", "bzip2"}

CompressRatio(_compress_ratio, t) ==
    IF t = <<>> THEN 10 ELSE _compress_ratio.ratio[t]

criteria_structural(_generated_texts, _compress_ratio, _kC, _baseline_random) ==
    LET \* baseline_random.get(L): None when there is no baseline for L
        hasBaseline(L) == ~_baseline_random.isNone /\ L \in DOMAIN _baseline_random.val
        R(L) == _baseline_random.val[L]
        \* kC.get(L, 0.0) of a dict, or the scalar
        kC_for(L) == IF _kC.isDict
                     THEN (IF L \in DOMAIN _kC.val THEN _kC.val[L] ELSE 0)
                     ELSE _kC.val
        Decides(t, L) == IF hasBaseline(L)
                         THEN CompressRatio(_compress_ratio, t) < R(L) - kC_for(L)
                         ELSE CompressRatio(_compress_ratio, t) <= kC_for(L)
        PlainHits(texts, L) ==
            [i \in 1..Len(texts) |-> Decides(texts[i].plaintext, L)]
        CipherHits(texts, L) ==
            [i \in 1..Len(texts) |-> Decides(texts[i].ciphertext, L)]
    IN  \* a non-empty text meets `raise ValueError("Unknown compressor")`
        IF _compress_ratio.name \notin Compressors /\ AnySymbol(_generated_texts)
        THEN Raised("ValueError")
        ELSE Returned([L \in DOMAIN _generated_texts |->
                        <<CountWhere(PlainHits(_generated_texts[L], L)),
                          CountWhere(CipherHits(_generated_texts[L], L))>>])

----------------------------------------------------------------------------
(* The suite of criteria: corpora, reference data and thresholds.  Each     *)
(* criterion is called on a corpus, on the same corpus with one text of     *)
(* every pair replaced, and (1.1, 3.0, 5.1) with a raised threshold.        *)

MaxThreshold == 2  \* largest k_p and k_empty
MaxJ == 3          \* largest j of criterion 5.1

\* the other symbol of CorpusSyms
Swap(t) == [i \in 1..Len(t) |-> IF t[i] = "a" THEN "z" ELSE "a"]
AllZ(t) == [i \in 1..Len(t) |-> "z"]

\* two pairs of length 2 under one key
TwoPairCorpora ==
    {[x \in {2} |-> <<[plaintext |-> p1, ciphertext |-> c],
                      [plaintext |-> p2, ciphertext |-> Swap(c)]>>] :
        p1 \in [1..2 -> CorpusSyms], p2 \in [1..2 -> CorpusSyms],
        c \in [1..2 -> CorpusSyms]}

\* one pair: a plaintext of up to MaxTextLen symbols with itself, its swap
\* or all z as the ciphertext
OnePairCorpora ==
    UNION {{[x \in {L} |-> <<[plaintext |-> p, ciphertext |-> c]>>] :
                p \in [1..L -> CorpusSyms],
                c \in [1..L -> CorpusSyms]} : L \in 0..1}
    \cup UNION {UNION {{[x \in {L} |-> <<[plaintext |-> p, ciphertext |-> p]>>],
                       [x \in {L} |-> <<[plaintext |-> p, ciphertext |-> Swap(p)]>>],
                       [x \in {L} |-> <<[plaintext |-> p, ciphertext |-> AllZ(p)]>>]} :
                    p \in [1..L -> CorpusSyms]} : L \in 2..MaxTextLen}

SuiteCorpora ==
    UNION {Corpora(D, MaxPairs) : D \in {{}, {0}, {0, 1}}}
    \cup OnePairCorpora
    \cup TwoPairCorpora

\* the corpus with every plaintext, or every ciphertext, replaced
ReplacePlain(_generated_texts, kind) ==
    [L \in DOMAIN _generated_texts |->
        [i \in 1..Len(_generated_texts[L]) |->
            [plaintext |-> IF kind = "swap" THEN Swap(_generated_texts[L][i].plaintext)
                                            ELSE AllZ(_generated_texts[L][i].plaintext),
             ciphertext |-> _generated_texts[L][i].ciphertext]]]
ReplaceCipher(_generated_texts, kind) ==
    [L \in DOMAIN _generated_texts |->
        [i \in 1..Len(_generated_texts[L]) |->
            [plaintext |-> _generated_texts[L][i].plaintext,
             ciphertext |-> IF kind = "swap" THEN Swap(_generated_texts[L][i].ciphertext)
                                             ELSE AllZ(_generated_texts[L][i].ciphertext)]]]

\* reference frequencies, in thousandths
RefFreqs == {400, 500}

\* reference tables over the l-grams of S, each with a frequency given by f
TableOf(S, f) == ListOf({<<x, f[x]>> : x \in S})
SymbolTables ==
    {SomeList(TableOf(S, f)) : S \in SUBSET {"z"}, f \in [CorpusSyms -> RefFreqs]}
    \cup {SomeList(<< <<"a", 500>> >>), SomeList(<< <<"a", 400>>, <<"z", 500>> >>)}
BigramTables ==
    {SomeList(<<>>)}
    \cup {SomeList(<< <<x, f>> >>) : x \in {<<"z", "z">>, <<"a", "z">>}, f \in RefFreqs}

SymbolLists == {SomeList(ListOf(S)) : S \in SUBSET CorpusSyms}
BigramLists == {SomeList(ListOf(S)) : S \in {T \in SUBSET Bigrams : Cardinality(T) <= 2}}

\* what every call of the suite starts from
SuiteCommon ==
    /\ generated_texts \in SuiteCorpora
    /\ replaced_texts \in {ReplacePlain(generated_texts, "swap"),
                           ReplaceCipher(generated_texts, "swap"),
                           ReplaceCipher(generated_texts, "z")}
    /\ criteria_result = Raised("pending")
    /\ replaced_result = Raised("pending")
    /\ raised_result = Raised("pending")
    /\ len_texts = <<>> /\ count_texts = <<>> /\ error_rates = <<>>
    /\ stage = "start"

ForbiddenOff == forbidden_symbols = NoneList /\ forbidden_bigrams = NoneList
TablesOff == symbols_frequency = NoneList /\ bigrams_frequency = NoneList
KpOff == kp = 0
TopOff == jtop = 0 /\ kempt = 0
EntropyOff == H = 0 /\ kH = 0 /\ use_bigrams = FALSE
StructuralOff ==
    /\ kC = 0 /\ baseline_random = [isNone |-> TRUE, val |-> <<>>]
    /\ compress_ratio = [name |-> "none", ratio |-> <<>>]

\* forbidden_symbols or forbidden_bigrams as evaluate_all passes them, or neither
ForbiddenArgs ==
    \/ forbidden_bigrams = NoneList /\ forbidden_symbols \in {NoneList} \cup SymbolLists
    \/ forbidden_symbols = NoneList /\ forbidden_bigrams \in BigramLists

\* (forbidden_symbols, symbols_frequency) or (forbidden_bigrams,
\* bigrams_frequency) as evaluate_all passes them, or a missing argument
ForbiddenAndTableArgs ==
    \/ /\ forbidden_bigrams = NoneList /\ bigrams_frequency = NoneList
       /\ \/ forbidden_symbols \in SymbolLists /\ symbols_frequency \in SymbolTables
          \/ forbidden_symbols = NoneList /\ symbols_frequency = SomeList(<< <<"z", 500>> >>)
          \/ forbidden_symbols = SomeList(<<"z">>) /\ symbols_frequency = NoneList
    \/ /\ forbidden_symbols = NoneList /\ symbols_frequency = NoneList
       /\ \/ forbidden_bigrams \in BigramLists /\ bigrams_frequency \in BigramTables
          \/ forbidden_bigrams = SomeList(<< <<"z", "z">> >>) /\ bigrams_frequency = NoneList

Init_1_0 ==
    /\ criterion = "1.0" /\ SuiteCommon /\ ForbiddenArgs
    /\ TablesOff /\ KpOff /\ TopOff /\ EntropyOff /\ StructuralOff /\ raised = 0

Init_1_1 ==
    /\ criterion = "1.1" /\ SuiteCommon /\ ForbiddenArgs
    /\ kp \in 0..MaxThreshold
    /\ raised \in (kp + 1)..(MaxThreshold + 1)
    /\ TablesOff /\ TopOff /\ EntropyOff /\ StructuralOff

Init_1_2 ==
    /\ criterion = "1.2" /\ SuiteCommon /\ ForbiddenAndTableArgs
    /\ KpOff /\ TopOff /\ EntropyOff /\ StructuralOff /\ raised = 0

Init_1_3 ==
    /\ criterion = "1.3" /\ SuiteCommon /\ ForbiddenAndTableArgs
    /\ KpOff /\ TopOff /\ EntropyOff /\ StructuralOff /\ raised = 0

\* reference entropies and deviations, in thousandths of a bit
EntropyLevels == {0, 500, 900}
Deviations == {0, 100, 500, 1000}

\* a value for all lengths, as a scalar or as a dict over the lengths D
ForAllLengths(asDict, D, x) == IF asDict THEN Dict([L \in D |-> x]) ELSE Scalar(x)

Init_3_0 ==
    /\ criterion = "3.0" /\ SuiteCommon
    /\ use_bigrams \in BOOLEAN
    /\ \E asDict \in BOOLEAN, h \in EntropyLevels, k \in Deviations, r \in Deviations :
          /\ k < r
          /\ H = ForAllLengths(asDict, DOMAIN generated_texts, h)
          /\ kH = ForAllLengths(asDict, DOMAIN generated_texts, k)
          /\ raised = ForAllLengths(asDict, DOMAIN generated_texts, r)
    /\ ForbiddenOff /\ TablesOff /\ KpOff /\ TopOff /\ StructuralOff

\* a dict that lacks the lengths of the corpus
Init_3_0_MissingLength ==
    /\ criterion = "3.0" /\ SuiteCommon
    /\ use_bigrams \in BOOLEAN
    /\ H = Dict(<<>>) /\ kH = Dict(<<>>) /\ raised = Dict(<<>>)
    /\ ForbiddenOff /\ TablesOff /\ KpOff /\ TopOff /\ StructuralOff

\* reference tables in the order of the frequencies: up to two l-grams
SymbolTopTables ==
    {SomeList(<<>>)}
    \cup {SomeList(<< <<x, 500>> >>) : x \in CorpusSyms}
    \cup {SomeList(<< <<q[1], 500>>, <<q[2], 400>> >>) :
            q \in {r \in CorpusSyms \X CorpusSyms : r[1] # r[2]}}
BigramTopTables ==
    {SomeList(<< <<x, 500>> >>) : x \in Bigrams}
    \cup {SomeList(<< <<ListOf(S)[1], 500>>, <<ListOf(S)[2], 400>> >>) :
            S \in {T \in SUBSET Bigrams : Cardinality(T) = 2}}

Init_5_1 ==
    /\ criterion = "5.1" /\ SuiteCommon
    /\ \/ bigrams_frequency = NoneList /\ symbols_frequency \in {NoneList} \cup SymbolTopTables
       \/ symbols_frequency = NoneList /\ bigrams_frequency \in BigramTopTables
    /\ jtop \in 1..MaxJ
    /\ kempt \in 0..MaxThreshold
    /\ raised = kempt + 1
    /\ ForbiddenOff /\ KpOff /\ EntropyOff /\ StructuralOff

\* compression ratios and cutoffs, in tenths
Ratios == {5, 10, 15}
Tolerances == {0, 5}
Baselines == {10, 15}

StructuralCorpora == UNION {Corpora(D, MaxPairs) : D \in SUBSET {0, 1}}

Init_structural ==
    /\ criterion = "structural" /\ SuiteCommon
    /\ generated_texts \in StructuralCorpora
    /\ \/ compress_ratio \in {[name |-> "lzma", ratio |-> f] :
                                f \in [[1..1 -> CorpusSyms] -> Ratios]}
       \/ compress_ratio = [name |-> "rar", ratio |-> [t \in [1..1 -> CorpusSyms] |-> 10]]
    /\ \/ \E asDict \in BOOLEAN, k \in Tolerances :
             kC = ForAllLengths(asDict, DOMAIN generated_texts, k)
       \/ kC = Dict(<<>>)
    /\ \/ baseline_random = NoneList
       \/ baseline_random = SomeList(<<>>)
       \/ \E R \in Baselines :
             baseline_random = SomeList([L \in DOMAIN generated_texts |-> R])
    /\ ForbiddenOff /\ TablesOff /\ KpOff /\ TopOff /\ raised = 0
    /\ H = 0 /\ kH = 0 /\ use_bigrams = FALSE

\* the variables a call of a criterion leaves alone
SuiteArgs == <<generated_texts, forbidden_symbols, forbidden_bigrams,
               len_texts, count_texts, error_rates,
               criterion, kp, jtop, kempt, symbols_frequency, bigrams_frequency,
               H, kH, use_bigrams, kC, baseline_random, compress_ratio,
               replaced_texts, raised>>

Suite_1_0 ==
    /\ stage = "start" /\ criterion = "1.0"
    /\ criteria_result' = criteria_1_0(generated_texts, forbidden_symbols, forbidden_bigrams)
    /\ replaced_result' = criteria_1_0(replaced_texts, forbidden_symbols, forbidden_bigrams)
    /\ stage' = "evaluated"
    /\ UNCHANGED <<SuiteArgs, raised_result>>
    /\ UNCHANGED <<cipherVars, egcdVars, counterVars, helperVars>>

Criteria_1_1 ==
    /\ stage = "start" /\ criterion = "1.1"
    /\ criteria_result' = criteria_1_1(generated_texts, kp, forbidden_symbols, forbidden_bigrams)
    /\ replaced_result' = criteria_1_1(replaced_texts, kp, forbidden_symbols, forbidden_bigrams)
    /\ raised_result' = criteria_1_1(generated_texts, raised, forbidden_symbols, forbidden_bigrams)
    /\ stage' = "evaluated"
    /\ UNCHANGED SuiteArgs
    /\ UNCHANGED <<cipherVars, egcdVars, counterVars, helperVars>>

Criteria_1_2 ==
    /\ stage = "start" /\ criterion = "1.2"
    /\ criteria_result' = criteria_1_2(generated_texts, forbidden_symbols, symbols_frequency,
                                       forbidden_bigrams, bigrams_frequency)
    /\ replaced_result' = criteria_1_2(replaced_texts, forbidden_symbols, symbols_frequency,
                                       forbidden_bigrams, bigrams_frequency)
    /\ stage' = "evaluated"
    /\ UNCHANGED <<SuiteArgs, raised_result>>
    /\ UNCHANGED <<cipherVars, egcdVars, counterVars, helperVars>>

Criteria_1_3 ==
    /\ stage = "start" /\ criterion = "1.3"
    /\ criteria_result' = criteria_1_3(generated_texts, forbidden_symbols, symbols_frequency,
                                       forbidden_bigrams, bigrams_frequency)
    /\ replaced_result' = criteria_1_3(replaced_texts, forbidden_symbols, symbols_frequency,
                                       forbidden_bigrams, bigrams_frequency)
    /\ stage' = "evaluated"
    /\ UNCHANGED <<SuiteArgs, raised_result>>
    /\ UNCHANGED <<cipherVars, egcdVars, counterVars, helperVars>>

Criteria_3_0 ==
    /\ stage = "start" /\ criterion = "3.0"
    /\ criteria_result' = criteria_3_0(generated_texts, H, kH, use_bigrams)
    /\ replaced_result' = criteria_3_0(replaced_texts, H, kH, use_bigrams)
    /\ raised_result' = criteria_3_0(generated_texts, H, raised, use_bigrams)
    /\ stage' = "evaluated"
    /\ UNCHANGED SuiteArgs
    /\ UNCHANGED <<cipherVars, egcdVars, counterVars, helperVars>>

Criteria_5_1 ==
    /\ stage = "start" /\ criterion = "5.1"
    /\ criteria_result' = criteria_5_1(generated_texts, jtop, kempt,
                                       symbols_frequency, bigrams_frequency)
    /\ replaced_result' = criteria_5_1(replaced_texts, jtop, kempt,
                                       symbols_frequency, bigrams_frequency)
    /\ raised_result' = criteria_5_1(generated_texts, jtop, raised,
                                     symbols_frequency, bigrams_frequency)
    /\ stage' = "evaluated"
    /\ UNCHANGED SuiteArgs
    /\ UNCHANGED <<cipherVars, egcdVars, counterVars, helperVars>>

Criteria_structural ==
    /\ stage = "start" /\ criterion = "structural"
    /\ criteria_result' = criteria_structural(generated_texts, compress_ratio,
                                              kC, baseline_random)
    /\ replaced_result' = criteria_structural(replaced_texts, compress_ratio,
                                              kC, baseline_random)
    /\ stage' = "evaluated"
    /\ UNCHANGED <<SuiteArgs, raised_result>>
    /\ UNCHANGED <<cipherVars, egcdVars, counterVars, helperVars>>

InitSuite ==
    /\ \/ Init_1_0 \/ Init_1_1 \/ Init_1_2 \/ Init_1_3
       \/ Init_3_0 \/ Init_3_0_MissingLength \/ Init_5_1 \/ Init_structural
    /\ CipherIdle /\ EgcdIdle /\ CounterIdle /\ HelperIdle

NextSuite ==
    \/ Suite_1_0 \/ Criteria_1_1 \/ Criteria_1_2 \/ Criteria_1_3
    \/ Criteria_3_0 \/ Criteria_5_1 \/ Criteria_structural

SpecSuite == InitSuite /\ [][NextSuite]_vars

CounterSyms == {"a", "b", "z"}

CounterInit ==
    /\ btext \in SeqUpTo(CounterSyms, MaxLen)
    /\ bresult = Raised("pending")

BigramCountCrossing ==
    /\ bresult = Raised("pending")
    /\ bresult' = bigram_count_crossing(btext)
    /\ UNCHANGED btext
    /\ UNCHANGED <<cipherVars, egcdVars, critVars, suiteVars, helperVars>>

InitCounter == CounterInit /\ CipherIdle /\ EgcdIdle /\ CritIdle /\ SuiteIdle /\ HelperIdle

NextCounter == BigramCountCrossing

SpecCounter == InitCounter /\ [][NextCounter]_vars

(* C20: Crossing bigram counter.  For every text of length n >= 1,           *)
(* bigram_count_crossing raises no index error (also for n = 1) and the      *)
(* counts it returns sum to n; for the empty text it returns an empty table. *)

C20_CrossingCounterInBounds ==
    bresult.err # "pending" =>
        /\ Len(btext) >= 1 =>
              bresult.err = "" /\ SumCounts(bresult.value) = Len(btext)
        /\ Len(btext) = 0 => bresult = Returned(<<>>)

----------------------------------------------------------------------------
(* Properties of the suite of criteria.                                  *)

Evaluated == stage = "evaluated" /\ criterion # "none"
BothReturned == Evaluated /\ criteria_result.err = "" /\ replaced_result.err = ""

\* the plaintexts, resp. ciphertexts, stored under L, in order
Plaintexts(texts) == [i \in 1..Len(texts) |-> texts[i].plaintext]
Ciphertexts(texts) == [i \in 1..Len(texts) |-> texts[i].ciphertext]
plain_count(result, L) == result.value[L][1]
cipher_count(result, L) == result.value[L][2]

(* C11: Independence of trials.  For every criterion the plain count of a   *)
(* length depends only on the plaintexts and the cipher count only on the   *)
(* ciphertexts: a corpus and the same corpus with all ciphertexts replaced  *)
(* have equal plain counts, with all plaintexts replaced equal cipher       *)
(* counts, and the call on one returns exactly when the call on the other   *)
(* does.                                                                    *)

C11_IndependentTrials ==
    Evaluated =>
        /\ criteria_result.err = replaced_result.err
        /\ criteria_result.err = "" =>
              \A L \in DOMAIN generated_texts :
                  /\ Plaintexts(generated_texts[L]) = Plaintexts(replaced_texts[L])
                        => plain_count(criteria_result, L) = plain_count(replaced_result, L)
                  /\ Ciphertexts(generated_texts[L]) = Ciphertexts(replaced_texts[L])
                        => cipher_count(criteria_result, L) = cipher_count(replaced_result, L)

\* replacing the ciphertexts changed the cipher count and left a positive
\* plain count alone
C11_Witness ==
    /\ BothReturned
    /\ \E L \in DOMAIN generated_texts :
          /\ Plaintexts(generated_texts[L]) = Plaintexts(replaced_texts[L])
          /\ Ciphertexts(generated_texts[L]) # Ciphertexts(replaced_texts[L])
          /\ cipher_count(criteria_result, L) # cipher_count(replaced_result, L)
          /\ plain_count(criteria_result, L) > 0
          /\ plain_count(criteria_result, L) = plain_count(replaced_result, L)

\* the cutoff of the documented rule: R_L - k_C(L) with a baseline for L,
\* otherwise k_C
StructuralCutoff(L) ==
    LET kC_L == IF kC.isDict THEN (IF L \in DOMAIN kC.val THEN kC.val[L] ELSE 0)
                             ELSE kC.val
    IN  IF ~baseline_random.isNone /\ L \in DOMAIN baseline_random.val
        THEN baseline_random.val[L] - kC_L
        ELSE kC_L

AtOrAboveCutoff(texts, L) ==
    Cardinality({i \in 1..Len(texts) :
                    CompressRatio(compress_ratio, texts[i]) >= StructuralCutoff(L)})

(* C12: Structural polarity.  A sequence is counted as H1 by the structural *)
(* criterion exactly when its compression ratio r is at or above the        *)
(* cutoff: r >= R_L - k_C(L) with a random baseline for its length,         *)
(* r >= k_C without; a sequence below the cutoff is never counted.          *)

C12_StructuralPolarity ==
    (Evaluated /\ criterion = "structural" /\ criteria_result.err = "") =>
        \A L \in DOMAIN generated_texts :
            /\ plain_count(criteria_result, L)
                  = AtOrAboveCutoff(Plaintexts(generated_texts[L]), L)
            /\ cipher_count(criteria_result, L)
                  = AtOrAboveCutoff(Ciphertexts(generated_texts[L]), L)

\* the l-grams of the sequence and the top-j reference l-grams of the call
TopMode == Truthy(bigrams_frequency)
TopLgrams(t) == IF TopMode THEN BigramsAt(t) ELSE SymbolsAt(t)
TopReference ==
    LET top == TopJ((IF TopMode THEN bigrams_frequency ELSE symbols_frequency).val, jtop)
    IN  {top[i] : i \in 1..Len(top)}

\* the top-j reference l-grams that do not occur in the sequence
MissingFromSequence(t) == {x \in TopReference : ~In(x, TopLgrams(t))}

MissingAtLeast(texts, k) ==
    Cardinality({i \in 1..Len(texts) : Cardinality(MissingFromSequence(texts[i])) >= k})

(* C13: Criterion 5.1.  For every reference table, every j >= 1 (also j     *)
(* larger than the number of entries of the table) and every k_empty, a     *)
(* sequence is counted as H1 exactly when the number of l-grams among the   *)
(* top-j most frequent reference l-grams that do not occur in it is at      *)
(* least k_empty.                                                           *)

C13_Criterion_5_1 ==
    (Evaluated /\ criterion = "5.1" /\ criteria_result.err = "") =>
        \A L \in DOMAIN generated_texts :
            /\ plain_count(criteria_result, L)
                  = MissingAtLeast(Plaintexts(generated_texts[L]), kempt)
            /\ cipher_count(criteria_result, L)
                  = MissingAtLeast(Ciphertexts(generated_texts[L]), kempt)

\* the same statement for the calls whose j is within the table
C13_WithinTable ==
    (Evaluated /\ criterion = "5.1" /\ criteria_result.err = ""
        /\ jtop <= Cardinality(TopReference)) =>
        \A L \in DOMAIN generated_texts :
            /\ plain_count(criteria_result, L)
                  = MissingAtLeast(Plaintexts(generated_texts[L]), kempt)
            /\ cipher_count(criteria_result, L)
                  = MissingAtLeast(Ciphertexts(generated_texts[L]), kempt)

\* the l-gram positions of a sequence in the mode of a call of 1.2 or 1.3
ForbiddenMode == Truthy(forbidden_bigrams)
ForbiddenLgrams(t) == IF ForbiddenMode THEN BigramsAt(t) ELSE SymbolsAt(t)
NoPositions(texts) ==
    \A i \in 1..Len(texts) :
        /\ Len(ForbiddenLgrams(texts[i].plaintext)) = 0
        /\ Len(ForbiddenLgrams(texts[i].ciphertext)) = 0

(* C14: Zero-total policy.  Criteria 1.2 and 1.3, in unigram mode on        *)
(* sequences of length 0 and in bigram mode on sequences of length 0 or 1,  *)
(* decide "no detection" (the sequence is not counted) and never raise a    *)
(* division-by-zero error.                                                  *)

C14_ZeroTotalPolicy ==
    (Evaluated /\ criterion \in {"1.2", "1.3"}) =>
        /\ criteria_result.err # "ZeroDivisionError"
        /\ criteria_result.err = "" =>
              \A L \in DOMAIN generated_texts :
                  NoPositions(generated_texts[L]) => criteria_result.value[L] = <<0, 0>>

\* the same statement for criterion 1.2 alone
C14_Criterion_1_2_Only ==
    (Evaluated /\ criterion = "1.2") =>
        /\ criteria_result.err # "ZeroDivisionError"
        /\ criteria_result.err = "" =>
              \A L \in DOMAIN generated_texts :
                  NoPositions(generated_texts[L]) => criteria_result.value[L] = <<0, 0>>

\* the forbidden set of a call of 1.1 and its l-grams occurring in a sequence
WindowMode == ~forbidden_bigrams.isNone
ForbiddenSet ==
    LET forbidden == IF WindowMode THEN forbidden_bigrams.val ELSE forbidden_symbols.val
    IN  {forbidden[i] : i \in 1..Len(forbidden)}
WindowLgrams(t) == IF WindowMode THEN BigramsAt(t) ELSE SymbolsAt(t)
DistinctForbidden(t) == {x \in ForbiddenSet : In(x, WindowLgrams(t))}

DistinctAtLeast(texts, k) ==
    Cardinality({i \in 1..Len(texts) : Cardinality(DistinctForbidden(texts[i])) >= k})

(* C15: Criterion 1.1.  For every corpus, forbidden set and threshold k_p,  *)
(* a sequence is counted as H1 exactly when the number of distinct          *)
(* forbidden l-grams occurring in it is at least k_p; repeated occurrences  *)
(* of one forbidden l-gram count once.                                      *)

C15_Criterion_1_1 ==
    (Evaluated /\ criterion = "1.1" /\ criteria_result.err = "") =>
        \A L \in DOMAIN generated_texts :
            /\ plain_count(criteria_result, L)
                  = DistinctAtLeast(Plaintexts(generated_texts[L]), kp)
            /\ cipher_count(criteria_result, L)
                  = DistinctAtLeast(Ciphertexts(generated_texts[L]), kp)

\* k_p = 2: a plaintext repeating its one forbidden l-gram is not counted,
\* a ciphertext with two distinct ones is
C15_Witness ==
    /\ Evaluated /\ criterion = "1.1" /\ criteria_result.err = "" /\ kp = 2
    /\ \E L \in DOMAIN generated_texts :
          /\ \E i \in 1..Len(generated_texts[L]) :
                LET p == generated_texts[L][i].plaintext
                IN  /\ Cardinality(DistinctForbidden(p)) = 1
                    /\ ForbiddenPositions(WindowLgrams(p), IF WindowMode
                                                           THEN forbidden_bigrams.val
                                                           ELSE forbidden_symbols.val) >= 2
          /\ plain_count(criteria_result, L) = 0
          /\ cipher_count(criteria_result, L) > 0

\* the forbidden set and the reference table of a call of 1.2 or 1.3
ForbiddenOfMode ==
    LET forbidden == IF ForbiddenMode THEN forbidden_bigrams.val ELSE forbidden_symbols.val
    IN  {forbidden[i] : i \in 1..Len(forbidden)}
ReferenceTable == (IF ForbiddenMode THEN bigrams_frequency ELSE symbols_frequency).val
InReferenceTable(x) == \E i \in 1..Len(ReferenceTable) : ReferenceTable[i][1] = x
\* the reference frequency of x in thousandths, 0 when the table has no x
ReferenceFrequency(x) == IF InReferenceTable(x) THEN RefFreqGet(ReferenceTable, x) ELSE 0

\* x occurs in the sequence and occurrences / positions > reference frequency
ExceedsReference(t, x) ==
    /\ Occurrences(ForbiddenLgrams(t), x) >= 1
    /\ Occurrences(ForbiddenLgrams(t), x) * 1000
          > ReferenceFrequency(x) * Len(ForbiddenLgrams(t))

SomeExceeds(texts) ==
    Cardinality({i \in 1..Len(texts) : \E x \in ForbiddenOfMode : ExceedsReference(texts[i], x)})

(* C16: Criterion 1.2.  A sequence is counted as H1 exactly when some        *)
(* forbidden l-gram occurs in it with observed relative frequency            *)
(* (occurrences / l-gram positions: len for unigrams, len - 1 for bigrams)   *)
(* strictly greater than its reference frequency; the reference frequency of *)
(* an l-gram absent from the reference table is 0 and the lookup never       *)
(* raises.                                                                   *)

C16_Criterion_1_2 ==
    (Evaluated /\ criterion = "1.2") =>
        /\ criteria_result.err \in {"", "TypeError"}
        /\ criteria_result.err = "" =>
              \A L \in DOMAIN generated_texts :
                  /\ plain_count(criteria_result, L)
                        = SomeExceeds(Plaintexts(generated_texts[L]))
                  /\ cipher_count(criteria_result, L)
                        = SomeExceeds(Ciphertexts(generated_texts[L]))

\* a plaintext counted for a forbidden l-gram the table does not list, and a
\* ciphertext whose forbidden l-gram occurs exactly at its reference frequency
C16_Witness ==
    /\ Evaluated /\ criterion = "1.2" /\ criteria_result.err = ""
    /\ \E L \in DOMAIN generated_texts :
          \E i \in 1..Len(generated_texts[L]) :
              LET p == generated_texts[L][i].plaintext
                  c == generated_texts[L][i].ciphertext
              IN  /\ Len(generated_texts[L]) = 1
                  /\ \E x \in ForbiddenOfMode :
                        ~InReferenceTable(x) /\ ExceedsReference(p, x)
                  /\ \E x \in ForbiddenOfMode :
                        /\ Occurrences(ForbiddenLgrams(c), x) >= 1
                        /\ Occurrences(ForbiddenLgrams(c), x) * 1000
                              = ReferenceFrequency(x) * Len(ForbiddenLgrams(c))
                  /\ criteria_result.value[L] = <<1, 0>>

\* K_p in thousandths: the reference frequencies of the forbidden set, summed
AggregateReference == SumRefFreq(ReferenceTable, ListOf(ForbiddenOfMode))

\* forbidden positions / positions > K_p
AggregateExceeds(t) ==
    ForbiddenPositions(ForbiddenLgrams(t), ListOf(ForbiddenOfMode)) * 1000
        > AggregateReference * Len(ForbiddenLgrams(t))

SomePosition(texts) ==
    \A i \in 1..Len(texts) :
        /\ Len(ForbiddenLgrams(texts[i].plaintext)) >= 1
        /\ Len(ForbiddenLgrams(texts[i].ciphertext)) >= 1

AggregateCount(texts) == Cardinality({i \in 1..Len(texts) : AggregateExceeds(texts[i])})

(* C17: Criterion 1.3.  A sequence with at least one l-gram position is      *)
(* counted as H1 exactly when (positions holding a forbidden l-gram) /       *)
(* (l-gram positions) is strictly greater than K_p, the sum of the           *)
(* reference frequencies of the l-grams of the forbidden set, absent ones    *)
(* counted as 0.                                                             *)

C17_Criterion_1_3 ==
    (Evaluated /\ criterion = "1.3" /\ criteria_result.err = "") =>
        \A L \in DOMAIN generated_texts :
            SomePosition(generated_texts[L]) =>
                /\ plain_count(criteria_result, L)
                      = AggregateCount(Plaintexts(generated_texts[L]))
                /\ cipher_count(criteria_result, L)
                      = AggregateCount(Ciphertexts(generated_texts[L]))

\* K_p > 0: a plaintext above it is counted, a ciphertext holding forbidden
\* l-grams at or below it is not
C17_Witness ==
    /\ Evaluated /\ criterion = "1.3" /\ criteria_result.err = ""
    /\ AggregateReference > 0
    /\ \E L \in DOMAIN generated_texts :
          /\ Len(generated_texts[L]) = 1 /\ SomePosition(generated_texts[L])
          /\ AggregateExceeds(generated_texts[L][1].plaintext)
          /\ ForbiddenPositions(ForbiddenLgrams(generated_texts[L][1].ciphertext),
                                ListOf(ForbiddenOfMode)) >= 1
          /\ criteria_result.value[L] = <<1, 0>>

\* the counts of every length are at most those of the other result
CountsAtMost(result, other) ==
    \A L \in DOMAIN generated_texts :
        /\ plain_count(result, L) <= plain_count(other, L)
        /\ cipher_count(result, L) <= cipher_count(other, L)

(* C18: Threshold monotonicity.  For a fixed corpus and fixed reference     *)
(* data, for every length the plain and cipher counts of criterion 1.1 do   *)
(* not increase when k_p is raised, those of criterion 5.1 do not increase  *)
(* when k_empty is raised, and those of criterion 3.0 do not increase when  *)
(* k_H is widened, as a scalar or for every length of a dict.               *)

C18_ThresholdMonotone ==
    (Evaluated /\ criterion \in {"1.1", "5.1", "3.0"} /\ criteria_result.err = "") =>
        /\ raised_result.err = ""
        /\ CountsAtMost(raised_result, criteria_result)

\* widening a per-length k_H of criterion 3.0 lowers a count
C18_Witness ==
    /\ Evaluated /\ criterion = "3.0" /\ kH.isDict
    /\ criteria_result.err = "" /\ raised_result.err = ""
    /\ \E L \in DOMAIN generated_texts :
          /\ kH.val[L] < raised.val[L]
          /\ plain_count(raised_result, L) < plain_count(criteria_result, L)
          /\ cipher_count(raised_result, L) > 0

Criteria == {"1.0", "1.1", "1.2", "1.3", "3.0", "5.1", "structural"}

(* C19: CriterionResult shape.  For every criterion and every corpus on     *)
(* which it returns, the result has exactly the length keys of the corpus,  *)
(* and for each length L both counts are integers in [0, n_L], n_L being    *)
(* the number of pairs stored under L (so (0, 0) for an empty list).        *)

C19_ResultShape ==
    (Evaluated /\ criterion \in Criteria /\ criteria_result.err = "") =>
        /\ DOMAIN criteria_result.value = DOMAIN generated_texts
        /\ \A L \in DOMAIN generated_texts :
              /\ plain_count(criteria_result, L) \in 0..Len(generated_texts[L])
              /\ cipher_count(criteria_result, L) \in 0..Len(generated_texts[L])
              /\ DOMAIN criteria_result.value[L] = 1..2

\* criterion 5.1 on a corpus with an empty list under one length and every
\* text counted under another
C19_Witness ==
    /\ Evaluated /\ criterion = "5.1" /\ criteria_result.err = ""
    /\ \E L \in DOMAIN generated_texts :
          generated_texts[L] = <<>> /\ criteria_result.value[L] = <<0, 0>>
    /\ \E L \in DOMAIN generated_texts :
          /\ Len(generated_texts[L]) >= 2
          /\ criteria_result.value[L] = <<Len(generated_texts[L]), Len(generated_texts[L])>>

----------------------------------------------------------------------------
(* entropy_calculate as a call: the l-grams of a table are sequences of one *)
(* or two symbols, and the call ends with the entropy in thousandths of a   *)
(* bit or with the exception Python raises.                                 *)

MaxEntries == 2   \* most entries of a count table handed to entropy_calculate

EntropyCounts == {0, 1, 2}
EntropySyms == {"a", "b", "z"}

\* some entry of the table has count 0
ZeroCount(_sequence) == \E i \in 1..Len(_sequence) : _sequence[i][2] = 0

entropy_calculate_call(_sequence) ==
    IF _sequence = <<>> THEN Raised("IndexError")                 \* sequence[0][0]
    ELSE IF SumCounts(_sequence) = 0 THEN Raised("ZeroDivisionError")  \* freq / 0
    ELSE IF ZeroCount(_sequence) THEN Raised("ValueError")        \* math.log2(0.0)
    ELSE Returned(entropy_calculate(_sequence, Len(_sequence[1][1]) = 2))

EntropyInit ==
    /\ \/ esequence \in SeqUpTo({<<x>> : x \in EntropySyms} \X EntropyCounts, MaxEntries)
       \/ esequence \in SeqUpTo(Bigrams \X EntropyCounts, MaxEntries)
    /\ entropy = Raised("pending")
    /\ counts = <<>>
    /\ forbid_mass = [num |-> 0, den |-> 1] /\ popular_coverage = [num |-> 1, den |-> 1]
    /\ selection = Raised("pending")
    /\ clean_texts_by_L = <<>> /\ kH_bigrams = FALSE /\ alpha = [num |-> 0, den |-> 1]
    /\ kH_dynamic = Raised("pending")

EntropyCalculate ==
    /\ entropy = Raised("pending")
    /\ entropy' = entropy_calculate_call(esequence)
    /\ UNCHANGED <<esequence, counts, forbid_mass, popular_coverage, selection,
                   clean_texts_by_L, kH_bigrams, alpha, kH_dynamic>>
    /\ UNCHANGED <<cipherVars, egcdVars, critVars, suiteVars, counterVars>>

InitEntropy == EntropyInit /\ CipherIdle /\ EgcdIdle /\ CritIdle /\ SuiteIdle /\ CounterIdle

NextEntropy == EntropyCalculate

SpecEntropy == InitEntropy /\ [][NextEntropy]_vars

(* C21: Degenerate entropy input.  entropy_calculate returns a well-defined *)
(* value and never raises for an empty count table, for a table with an     *)
(* entry of count 0 (which contributes 0) and for a table whose counts are  *)
(* all 0.                                                                   *)

C21_DegenerateEntropy ==
    entropy.err # "pending" =>
        /\ entropy.err = ""
        /\ (esequence = <<>> \/ SumCounts(esequence) = 0) => entropy.value = 0

\* the same statement for the tables whose counts are all positive
C21_PositiveCounts ==
    (entropy.err # "pending" /\ esequence # <<>> /\ ~ZeroCount(esequence)) =>
        entropy.err = ""

----------------------------------------------------------------------------
(* Selection of the forbidden and the popular l-grams (helper.py).  A count *)
(* table is a list of (l-gram, count) with the l-grams sequences of one or  *)
(* two symbols; forbid_mass and popular_coverage are the fractions          *)
(* [num, den].  The sums of the code are floats of small fractions, whose   *)
(* error stays far below the tolerance 1e-12, so they are compared exactly. *)

MaxItems == 3     \* most l-grams of a count table

SelectCounts == 0..3
Fraction(n, d) == [num |-> n, den |-> d]

\* sorted(items, key=lambda kv: kv[1], reverse=True): stable, descending
items_desc(items) ==
    LET Rank(p) == 1 + Cardinality({q \in 1..Len(items) :
                        \/ items[q][2] > items[p][2]
                        \/ items[q][2] = items[p][2] /\ q < p})
    IN  [r \in 1..Len(items) |-> items[CHOOSE q \in 1..Len(items) : Rank(q) = r]]

\* list(reversed(items_desc))
items_asc(items) ==
    LET d == items_desc(items)
    IN  [r \in 1..Len(d) |-> d[Len(d) + 1 - r]]

\* sum(c for _, c in items_desc) or 1
TotalOr1(items) == IF SumCounts(items) = 0 THEN 1 ELSE SumCounts(items)

\* the sum of the counts of the first k entries
RECURSIVE CumCount(_, _)
CumCount(items, k) == IF k = 0 THEN 0 ELSE items[k][2] + CumCount(items, k - 1)

\* the walk from the low end: entries are taken while cum + p <= forbid_mass
ForbiddenWalk(items, _forbid_mass) ==
    LET asc == items_asc(items)
        total == TotalOr1(items)
        Fits(k) == CumCount(asc, k) * _forbid_mass.den <= _forbid_mass.num * total
        n == Cardinality({k \in 1..Len(asc) : \A i \in 1..k : Fits(i)})
    IN  [k \in 1..n |-> asc[k][1]]

\* the walk from the high end: entries are taken until cum >= popular_coverage
PopularWalk(items, _popular_coverage) ==
    LET desc == items_desc(items)
        total == TotalOr1(items)
        Reached(k) == CumCount(desc, k) * _popular_coverage.den
                          >= _popular_coverage.num * total
        n == IF \E k \in 1..Len(desc) : Reached(k)
             THEN CHOOSE k \in 1..Len(desc) : Reached(k) /\ \A i \in 1..(k - 1) : ~Reached(i)
             ELSE Len(desc)
    IN  [k \in 1..n |-> desc[k][1]]

\* the selection with the forbidden walk stopping before the mass is reached
select_unigram_sets_below_mass(_counts, _forbid_mass, _popular_coverage) ==
    LET asc == items_asc(_counts)
        total == TotalOr1(_counts)
        Fits(k) == CumCount(asc, k) * _forbid_mass.den < _forbid_mass.num * total
        n == Cardinality({k \in 1..Len(asc) : \A i \in 1..k : Fits(i)})
    IN  Returned([forbidden |-> [k \in 1..n |-> asc[k][1]],
                  popular |-> PopularWalk(_counts, _popular_coverage)])

\* the selection with the popular walk going on until the coverage is exceeded
select_unigram_sets_above_coverage(_counts, _forbid_mass, _popular_coverage) ==
    LET desc == items_desc(_counts)
        total == TotalOr1(_counts)
        Reached(k) == CumCount(desc, k) * _popular_coverage.den
                          > _popular_coverage.num * total
        n == IF \E k \in 1..Len(desc) : Reached(k)
             THEN CHOOSE k \in 1..Len(desc) : Reached(k) /\ \A i \in 1..(k - 1) : ~Reached(i)
             ELSE Len(desc)
    IN  Returned([forbidden |-> ForbiddenWalk(_counts, _forbid_mass),
                  popular |-> [k \in 1..n |-> desc[k][1]]])

select_unigram_sets_from_counts(_counts, _forbid_mass, _popular_coverage) ==
    Returned([forbidden |-> ForbiddenWalk(_counts, _forbid_mass),
              popular |-> PopularWalk(_counts, _popular_coverage)])

select_bigram_sets_from_counts(_counts, _forbid_mass, _popular_coverage) ==
    Returned([forbidden |-> ForbiddenWalk(_counts, _forbid_mass),
              popular |-> PopularWalk(_counts, _popular_coverage)])

\* the l-grams a table may list: one per letter, of one or of two symbols
UnigramKeys == {<<Letters[i]>> : i \in 1..MaxItems}
BigramKeys == {<<Letters[i], Letters[i]>> : i \in 1..MaxItems}

\* the tables listing distinct l-grams of K, in any order
TablesOver(K) ==
    {t \in SeqUpTo(K \X SelectCounts, MaxItems) :
        \A i \in 1..Len(t) : \A k \in 1..Len(t) : t[i][1] = t[k][1] => i = k}

ForbidMasses == {Fraction(0, 1), Fraction(1, 20), Fraction(1, 2), Fraction(1, 1)}
PopularCoverages == {Fraction(1, 20), Fraction(1, 2), Fraction(4, 5), Fraction(1, 1)}

SelectInit ==
    /\ counts \in TablesOver(UnigramKeys) \cup TablesOver(BigramKeys)
    /\ forbid_mass \in ForbidMasses
    /\ popular_coverage \in PopularCoverages
    /\ selection = Raised("pending")
    /\ esequence = <<>> /\ entropy = Raised("pending")
    /\ clean_texts_by_L = <<>> /\ kH_bigrams = FALSE /\ alpha = [num |-> 0, den |-> 1]
    /\ kH_dynamic = Raised("pending")

OfLength(_counts, l) == \A i \in 1..Len(_counts) : Len(_counts[i][1]) = l

SelectUnigramSets ==
    /\ selection = Raised("pending") /\ OfLength(counts, 1)
    /\ selection' = select_unigram_sets_from_counts(counts, forbid_mass, popular_coverage)
    /\ UNCHANGED <<esequence, entropy, counts, forbid_mass, popular_coverage,
                   clean_texts_by_L, kH_bigrams, alpha, kH_dynamic>>
    /\ UNCHANGED <<cipherVars, egcdVars, critVars, suiteVars, counterVars>>

SelectBigramSets ==
    /\ selection = Raised("pending") /\ OfLength(counts, 2) /\ counts # <<>>
    /\ selection' = select_bigram_sets_from_counts(counts, forbid_mass, popular_coverage)
    /\ UNCHANGED <<esequence, entropy, counts, forbid_mass, popular_coverage,
                   clean_texts_by_L, kH_bigrams, alpha, kH_dynamic>>
    /\ UNCHANGED <<cipherVars, egcdVars, critVars, suiteVars, counterVars>>

InitSelect == SelectInit /\ CipherIdle /\ EgcdIdle /\ CritIdle /\ SuiteIdle /\ CounterIdle

NextSelect == SelectUnigramSets \/ SelectBigramSets

SpecSelect == InitSelect /\ [][NextSelect]_vars

\* the count the table gives an l-gram
CountOf(_counts, lgram) ==
    LET i == CHOOSE i \in 1..Len(_counts) : _counts[i][1] = lgram IN _counts[i][2]

\* every element of the list has a count at least that of the next one
DescendingCounts(list, _counts) ==
    \A k \in 1..(Len(list) - 1) : CountOf(_counts, list[k]) >= CountOf(_counts, list[k + 1])

Selected == selection.err = ""

(* C22: in the output of select_unigram_sets_from_counts and of
   select_bigram_sets_from_counts, any two consecutive elements of
   'forbidden' and of 'popular' have the earlier count >= the later count. *)
C22_DescendingOrder ==
    Selected => /\ DescendingCounts(selection.value.forbidden, counts)
                /\ DescendingCounts(selection.value.popular, counts)

\* the popular list alone is in descending order of count
C22_PopularDescending ==
    Selected => DescendingCounts(selection.value.popular, counts)

\* the summed count of the l-grams of a list
MassOf(list, _counts) ==
    SumCounts([k \in 1..Len(list) |-> <<list[k], CountOf(_counts, list[k])>>])

LgramsOf(_counts) == {_counts[i][1] : i \in 1..Len(_counts)}
Members(list) == {list[k] : k \in 1..Len(list)}
NoRepeats(list) == \A i \in 1..Len(list) : \A k \in 1..Len(list) : list[i] = list[k] => i = k

\* the count times the denominator against the numerator times the total
WithinMass(count, mass, _counts) == count * mass.den <= mass.num * SumCounts(_counts)
ReachesMass(count, mass, _counts) == count * mass.den >= mass.num * SumCounts(_counts)

\* the list is a run of least-frequent l-grams: none left out is rarer than one taken
LeastFrequentRun(list, _counts) ==
    /\ NoRepeats(list) /\ Members(list) \subseteq LgramsOf(_counts)
    /\ \A x \in Members(list) : \A y \in LgramsOf(_counts) \ Members(list) :
           CountOf(_counts, x) <= CountOf(_counts, y)

\* the rarest of the l-grams left out, taken too, brings the mass over the limit
NextWouldExceed(list, mass, _counts) ==
    \A y \in LgramsOf(_counts) \ Members(list) :
        (\A z \in LgramsOf(_counts) \ Members(list) : CountOf(_counts, y) <= CountOf(_counts, z))
            => ~WithinMass(MassOf(list, _counts) + CountOf(_counts, y), mass, _counts)

(* C23: for every count table with positive total and every forbid_mass in
   [0, 1], 'forbidden' is the longest run of least-frequent l-grams whose
   summed relative frequency is <= forbid_mass: its mass never exceeds
   forbid_mass, and adding the next least-frequent l-gram would exceed it. *)
C23_ForbiddenSelection ==
    (Selected /\ SumCounts(counts) > 0) =>
        /\ LeastFrequentRun(selection.value.forbidden, counts)
        /\ WithinMass(MassOf(selection.value.forbidden, counts), forbid_mass, counts)
        /\ NextWouldExceed(selection.value.forbidden, forbid_mass, counts)

\* a table of three l-grams of which two are forbidden, their mass being the limit
C23_Witness ==
    /\ Selected /\ SumCounts(counts) > 0 /\ Len(counts) = 3
    /\ Len(selection.value.forbidden) = 2
    /\ forbid_mass = Fraction(1, 2)
    /\ MassOf(selection.value.forbidden, counts) * 2 = SumCounts(counts)

AllPositive(_counts) == \A i \in 1..Len(_counts) : _counts[i][2] > 0

\* forbid_mass in [0, 1], popular_coverage in (0, 1], their sum at most 1
MassesFit(f, c) ==
    /\ 0 <= f.num /\ f.num <= f.den
    /\ 0 < c.num /\ c.num <= c.den
    /\ f.num * c.den + c.num * f.den <= f.den * c.den

\* the list is a run of most-frequent l-grams, the most frequent first
MostFrequentPrefix(list, _counts) ==
    /\ NoRepeats(list) /\ Members(list) \subseteq LgramsOf(_counts)
    /\ DescendingCounts(list, _counts)
    /\ \A x \in Members(list) : \A y \in LgramsOf(_counts) \ Members(list) :
           CountOf(_counts, x) >= CountOf(_counts, y)

\* the list reaches the coverage, and without its last l-gram it does not
ShortestReaching(list, mass, _counts) ==
    /\ ReachesMass(MassOf(list, _counts), mass, _counts)
    /\ list # <<>>
    /\ ~ReachesMass(MassOf(list, _counts) - CountOf(_counts, list[Len(list)]), mass, _counts)

DisjointPopularPrefix ==
    /\ Members(selection.value.forbidden) \cap Members(selection.value.popular) = {}
    /\ MostFrequentPrefix(selection.value.popular, counts)
    /\ ShortestReaching(selection.value.popular, popular_coverage, counts)

(* C28: for every non-empty count table of distinct l-grams with positive
   counts, every forbid_mass in [0, 1] and popular_coverage in (0, 1] with
   forbid_mass + popular_coverage <= 1, 'forbidden' and 'popular' have no
   l-gram in common, and 'popular' is the shortest most-frequent prefix
   whose mass reaches popular_coverage. *)
C28_DisjointSelections ==
    (Selected /\ counts # <<>> /\ AllPositive(counts) /\ MassesFit(forbid_mass, popular_coverage))
        => DisjointPopularPrefix

\* C28 as stated, the table with no l-gram at all included
C28_DisjointSelections_AsClaimed ==
    (Selected /\ AllPositive(counts) /\ MassesFit(forbid_mass, popular_coverage))
        => DisjointPopularPrefix

\* three l-grams, the masses 1/2 and 1/2, both lists with an l-gram
C28_Witness ==
    /\ Selected /\ Len(counts) = 3 /\ AllPositive(counts)
    /\ forbid_mass = Fraction(1, 2) /\ popular_coverage = Fraction(1, 2)
    /\ selection.value.forbidden # <<>> /\ selection.value.popular # <<>>
    /\ Len(selection.value.forbidden) + Len(selection.value.popular) = 3

----------------------------------------------------------------------------
(* The dynamic entropy baseline (helper.compute_kH_dynamic).  An entropy is *)
(* an integer number of thousandths of a bit; a mean or a deviation of n    *)
(* entropies is the fraction [num, den] with den = n.                       *)

MaxSamples == 3    \* most samples under one length

RECURSIVE SumValues(_)
SumValues(values) ==
    IF values = <<>> THEN 0 ELSE values[1] + SumValues(Tail(values))

\* deltas.sort(): the values in ascending order
SortAscending(values) ==
    LET Rank(i) == Cardinality({k \in 1..Len(values) :
                       \/ values[k] < values[i]
                       \/ values[k] = values[i] /\ k < i}) + 1
    IN  [r \in 1..Len(values) |->
            values[CHOOSE i \in 1..Len(values) : Rank(i) = r]]

\* entropy_calculate(count_mode(sample)), and when it raises
SampleEntropy(sample, _bigrams) ==
    IF _bigrams THEN entropy_calculate(bigram_count_crossing(sample).value, TRUE)
    ELSE entropy_calculate(symbol_count(sample), FALSE)
SampleRaises(sample, _bigrams) == IF _bigrams THEN Len(sample) <= 1 ELSE Len(sample) = 0

\* int((1 - alpha) * (n - 1)): the product cut down to a whole number
QuantileIndex(_alpha, n) == ((_alpha.den - _alpha.num) * (n - 1)) \div _alpha.den

\* the body of the loop for the samples of one length: (H_mean, kH)
BaselineOf(samples, _bigrams, _alpha) ==
    LET n == Len(samples)
        H_values == [i \in 1..n |-> SampleEntropy(samples[i], _bigrams)]
        total == SumValues(H_values)
        \* n * |H - H_mean|, for each sample
        deltas == SortAscending([i \in 1..n |-> Abs(n * H_values[i] - total)])
    IN  [H_mean |-> Fraction(total, n),
         kH |-> Fraction(deltas[QuantileIndex(_alpha, n) + 1], n)]

compute_kH_dynamic(_clean_texts_by_L, _bigrams, _alpha) ==
    LET indexError(L) == \E i \in 1..Len(_clean_texts_by_L[L]) :
                             SampleRaises(_clean_texts_by_L[L][i], _bigrams)
        fails(L) == indexError(L) \/ Len(_clean_texts_by_L[L]) = 0
    IN  IF \E L \in DOMAIN _clean_texts_by_L : fails(L)
        THEN LET L == CHOOSE x \in DOMAIN _clean_texts_by_L :
                        fails(x) /\ \A y \in DOMAIN _clean_texts_by_L : fails(y) => x <= y
             IN  IF indexError(L) THEN Raised("IndexError") ELSE Raised("ZeroDivisionError")
        ELSE LET baseline == [L \in DOMAIN _clean_texts_by_L |->
                                 BaselineOf(_clean_texts_by_L[L], _bigrams, _alpha)]
             IN  Returned([H |-> [L \in DOMAIN _clean_texts_by_L |-> baseline[L].H_mean],
                           kH |-> [L \in DOMAIN _clean_texts_by_L |-> baseline[L].kH]])

SampleSyms == {"a", "b"}
SamplesOfLen(L) == SeqUpTo([1..L -> SampleSyms], MaxSamples)

\* the samples of one length, or of the lengths 1 and 2 together
CleanTexts ==
    UNION {[{L} -> SamplesOfLen(L)] : L \in 1..MaxTextLen}
        \cup [{1, 2} -> SeqUpTo([1..1 -> SampleSyms], 2) \cup SeqUpTo([1..2 -> SampleSyms], 2)]

Alphas == {Fraction(0, 1), Fraction(1, 20), Fraction(1, 2), Fraction(1, 1)}

KHInit ==
    /\ clean_texts_by_L \in CleanTexts
    /\ kH_bigrams \in BOOLEAN
    /\ alpha \in Alphas
    /\ kH_dynamic = Raised("pending")
    /\ esequence = <<>> /\ entropy = Raised("pending")
    /\ counts = <<>>
    /\ forbid_mass = [num |-> 0, den |-> 1] /\ popular_coverage = [num |-> 1, den |-> 1]
    /\ selection = Raised("pending")

ComputeKHDynamic ==
    /\ kH_dynamic = Raised("pending")
    /\ kH_dynamic' = compute_kH_dynamic(clean_texts_by_L, kH_bigrams, alpha)
    /\ UNCHANGED <<esequence, entropy, counts, forbid_mass, popular_coverage, selection,
                   clean_texts_by_L, kH_bigrams, alpha>>
    /\ UNCHANGED <<cipherVars, egcdVars, critVars, suiteVars, counterVars>>

InitKH == KHInit /\ CipherIdle /\ EgcdIdle /\ CritIdle /\ SuiteIdle /\ CounterIdle

NextKH == ComputeKHDynamic

SpecKH == InitKH /\ [][NextKH]_vars

\* round(num / den) of Python 3 for num >= 0: to the nearest, a half to the even
RoundHalfEven(num, den) ==
    LET q == num \div den
        r == num % den
    IN  IF 2 * r < den THEN q
        ELSE IF 2 * r > den THEN q + 1
        ELSE IF q % 2 = 0 THEN q ELSE q + 1

\* round((1 - alpha) * (n - 1))
RoundedIndex(_alpha, n) == RoundHalfEven((_alpha.den - _alpha.num) * (n - 1), _alpha.den)

SampleEntropies(L) ==
    [i \in 1..Len(clean_texts_by_L[L]) |-> SampleEntropy(clean_texts_by_L[L][i], kH_bigrams)]

\* n * |H_i - H_L| for every sample of the length
AbsDeviations(L) ==
    LET n == Len(clean_texts_by_L[L])
        total == SumValues(SampleEntropies(L))
    IN  [i \in 1..n |-> Abs(n * SampleEntropies(L)[i] - total)]

\* v stands at the 0-based index idx of the values put in ascending order
AtSortedIndex(values, idx, v) ==
    /\ Cardinality({i \in 1..Len(values) : values[i] < v}) <= idx
    /\ Cardinality({i \in 1..Len(values) : values[i] <= v}) > idx

BaselineReturned == kH_dynamic.err = ""

\* H_L is the mean of the sample entropies
MeanEntropy(L) ==
    /\ kH_dynamic.value.H[L].den = Len(clean_texts_by_L[L])
    /\ kH_dynamic.value.H[L].num = SumValues(SampleEntropies(L))

(* C24: for every length L with n >= 1 clean samples and every alpha in
   [0, 1], compute_kH_dynamic returns H_L = the mean of the sample entropies
   and k_H(L) = the element at index round((1 - alpha) * (n - 1)) of the
   ascending-sorted absolute deviations |H_i - H_L|. *)
C24_DynamicBaseline ==
    BaselineReturned =>
        \A L \in DOMAIN clean_texts_by_L :
            /\ MeanEntropy(L)
            /\ kH_dynamic.value.kH[L].den = Len(clean_texts_by_L[L])
            /\ AtSortedIndex(AbsDeviations(L), RoundedIndex(alpha, Len(clean_texts_by_L[L])),
                             kH_dynamic.value.kH[L].num)

\* the mean is as stated, and k_H(L) stands at the index int((1 - alpha) * (n - 1))
C24_TruncatedIndex ==
    BaselineReturned =>
        \A L \in DOMAIN clean_texts_by_L :
            /\ MeanEntropy(L)
            /\ kH_dynamic.value.kH[L].den = Len(clean_texts_by_L[L])
            /\ AtSortedIndex(AbsDeviations(L), QuantileIndex(alpha, Len(clean_texts_by_L[L])),
                             kH_dynamic.value.kH[L].num)

----------------------------------------------------------------------------
(* The encrypting pipelines of gen_text.py: for a plaintext of the corpus   *)
(* a key is drawn at random and the text is encrypted and stored.           *)

\* M = m ** 2 if bigram else m
KeyModulus(m, bigram) == IF bigram THEN m * m ELSE m

\* the loop that leaves with whatever it has drawn
KeyAccepted_any_draw(x, M) == x = x /\ M = M

\* the test that ends the loop of _random_affine_keys
KeyAccepted(x, M) == euclidean_algorithm_extended(x, M)[1] = 1

PipelineSizes == {2, 3, 4}
Plaintexts_by_length(_alphabet) ==
    UNION {[1..L -> {_alphabet[i] : i \in 1..Len(_alphabet)}] : L \in 0..MaxLen}

KeyRange == KeyModulus(Len(alphabet), cipher = "affine_bigram")

PipelineInit ==
    /\ \/ /\ cipher = "affine" /\ crossing = FALSE /\ pc = "draw_a"
          /\ alphabet \in {AlphabetOfSize(m) : m \in PipelineSizes}
       \/ /\ cipher = "affine_bigram" /\ crossing \in BOOLEAN /\ pc = "draw_a"
          /\ alphabet \in {AlphabetOfSize(m) : m \in BigramSizes}
       \/ /\ cipher = "vigenere" /\ crossing = FALSE /\ pc = "draw_key"
          /\ alphabet \in {AlphabetOfSize(m) : m \in VigenereSizes}
    /\ text \in Plaintexts_by_length(alphabet)
    /\ a = 0 /\ b = 0 /\ key = <<>>
    /\ enc = Pending /\ dinput = <<>> /\ dec = Pending

\* one turn of the loop: a draw of a that the test sends back
DrawRejected ==
    /\ pc = "draw_a"
    /\ \E x \in 1..(KeyRange - 1) : ~KeyAccepted(x, KeyRange) /\ a' = x
    /\ UNCHANGED <<cipher, alphabet, text, b, key, crossing, pc, enc, dinput, dec>>
    /\ UNCHANGED <<egcdVars, critVars, suiteVars, counterVars, helperVars>>

\* one turn of the loop: a draw of a that ends it
DrawAccepted ==
    /\ pc = "draw_a"
    /\ \E x \in 1..(KeyRange - 1) : KeyAccepted(x, KeyRange) /\ a' = x
    /\ pc' = "draw_b"
    /\ UNCHANGED <<cipher, alphabet, text, b, key, crossing, enc, dinput, dec>>
    /\ UNCHANGED <<egcdVars, critVars, suiteVars, counterVars, helperVars>>

DrawB ==
    /\ pc = "draw_b"
    /\ \E y \in 0..(KeyRange - 1) : b' = y
    /\ pc' = "keys"
    /\ UNCHANGED <<cipher, alphabet, text, a, key, crossing, enc, dinput, dec>>
    /\ UNCHANGED <<egcdVars, critVars, suiteVars, counterVars, helperVars>>

\* generate_random_text(alphabet, vigenere_keys_len)
DrawVigenereKey ==
    /\ pc = "draw_key"
    /\ \E k \in 1..MaxKeyLen : key' \in [1..k -> {alphabet[i] : i \in 1..Len(alphabet)}]
    /\ pc' = "keys"
    /\ UNCHANGED <<cipher, alphabet, text, a, b, crossing, enc, dinput, dec>>
    /\ UNCHANGED <<egcdVars, critVars, suiteVars, counterVars, helperVars>>

EncryptByAffine ==
    /\ pc = "keys" /\ cipher = "affine"
    /\ enc' = affine_encrypt(alphabet, text, a, b)
    /\ pc' = "stored"
    /\ UNCHANGED <<cipher, alphabet, text, a, b, key, crossing, dinput, dec>>
    /\ UNCHANGED <<egcdVars, critVars, suiteVars, counterVars, helperVars>>

EncryptByAffineBigram ==
    /\ pc = "keys" /\ cipher = "affine_bigram"
    /\ enc' = affine_bigram_encrypt(alphabet, text, a, b, crossing, alphabet[1])
    /\ pc' = "stored"
    /\ UNCHANGED <<cipher, alphabet, text, a, b, key, crossing, dinput, dec>>
    /\ UNCHANGED <<egcdVars, critVars, suiteVars, counterVars, helperVars>>

EncryptByVigenere ==
    /\ pc = "keys" /\ cipher = "vigenere"
    /\ enc' = vigenere_encrypt(alphabet, text, key)
    /\ pc' = "stored"
    /\ UNCHANGED <<cipher, alphabet, text, a, b, key, crossing, dinput, dec>>
    /\ UNCHANGED <<egcdVars, critVars, suiteVars, counterVars, helperVars>>

InitPipeline == PipelineInit /\ EgcdIdle /\ CritIdle /\ SuiteIdle /\ CounterIdle /\ HelperIdle

NextPipeline ==
    \/ DrawRejected \/ DrawAccepted \/ DrawB \/ DrawVigenereKey
    \/ EncryptByAffine \/ EncryptByAffineBigram \/ EncryptByVigenere

SpecPipeline == InitPipeline /\ [][NextPipeline]_vars

\* every draw is equally likely, so an accepted one comes in the end
SpecPipelineFair == SpecPipeline /\ WF_vars(DrawAccepted)

AffineKind == cipher \in {"affine", "affine_bigram"}

\* _random_affine_keys has returned (a, b)
KeysReturned == AffineKind /\ pc \in {"keys", "stored"}

ValidKeys ==
    /\ 1 <= a /\ a < KeyRange /\ Coprime(a, KeyRange)
    /\ 0 <= b /\ b < KeyRange

\* a = 1 is a draw that ends the loop
OneIsValid == (AffineKind /\ pc = "draw_a") => KeyAccepted(1, KeyRange)

\* the matching encrypt has taken the key and returned a ciphertext
KeyTaken == (AffineKind /\ pc = "stored") => enc.err = ""

(* C25: for every alphabet size m >= 2 and both modes, every pair (a, b)
   that _random_affine_keys(m, bigram) returns has 1 <= a < M,
   gcd(a, M) = 1 and 0 <= b < M with M = m^2 if bigram else m, and the
   matching encrypt accepts it; a = 1 is always a valid draw, and under
   fair random choice the sampling loop ends. *)
C25_KeyGeneration ==
    /\ [](KeysReturned => ValidKeys)
    /\ [](KeyTaken)
    /\ [](OneIsValid)
    /\ ((AffineKind /\ pc = "draw_a") ~> (pc = "draw_b"))

\* a digraphic key other than a = 1, drawn and used on a text of three symbols
C25_Witness ==
    /\ cipher = "affine_bigram" /\ Len(alphabet) = 3 /\ pc = "stored"
    /\ a = 5 /\ b = 8 /\ Len(text) = 3 /\ enc.err = ""

Stored == pc = "stored"

\* 0-based index of the k-th bigram of a text, as X = x1 * m + x2
BigramValue(_text, k) ==
    Index(alphabet, _text[k]) * Len(alphabet) + Index(alphabet, _text[k + 1])

\* the k-th pair of symbols of the ciphertext, read as one value
OutputBigram(k) == BigramValue(enc.text, 2 * k - 1)

CrossingCorpus == Stored /\ cipher = "affine_bigram" /\ crossing

(* C26: in the corpus built by encrypt_texts_by_affine_bigram with
   crossing=True each pair under the length L has a plaintext of L symbols
   and a ciphertext of 2*(L-1) symbols (empty when L < 2), the k-th output
   bigram being the affine image modulo m^2 of (text[k], text[k+1]); the
   Vigenere and affine pipelines store ciphertexts of exactly L symbols. *)
C26_CorpusLengths ==
    /\ CrossingCorpus =>
          /\ enc.err = ""
          /\ Len(enc.text) = IF Len(text) < 2 THEN 0 ELSE 2 * (Len(text) - 1)
          /\ \A k \in 1..(Len(text) - 1) :
                 OutputBigram(k) = (a * BigramValue(text, k) + b) % (Len(alphabet) * Len(alphabet))
    /\ (Stored /\ cipher \in {"affine", "vigenere"}) =>
          /\ enc.err = ""
          /\ Len(enc.text) = Len(text)

\* a plaintext of four symbols stored with a ciphertext of six
C26_Witness ==
    /\ CrossingCorpus /\ Len(alphabet) = 3 /\ a = 2 /\ b = 1
    /\ Len(text) = 4 /\ Len(enc.text) = 6

\* the counts of symbol_count(_text), in the order of the list
CountsOf(_text) == [i \in 1..Len(symbol_count(_text)) |-> symbol_count(_text)[i][2]]

AffinePair == Stored /\ cipher = "affine" /\ enc.err = ""

\* reference entropies and deviations, in thousandths of a bit
ReferenceEntropies == {0, 1000, 1500}
EntropyDeviations == {0, 500}

\* criterion 3.0 in unigram mode on the corpus of the one pair stored
DecisionOf(_H, _kH) ==
    criteria_3_0([L \in {Len(text)} |-> <<[plaintext |-> text, ciphertext |-> enc.text]>>],
                 Scalar(_H), Scalar(_kH), FALSE)

(* C27: for every valid key and text the affine symbol map is injective, so
   the counts of symbol_count(ciphertext) equal the counts of
   symbol_count(plaintext) position by position, and criterion 3.0 in
   unigram mode counts the plaintext and the ciphertext of an affine pair
   alike (plain count = cipher count). *)
C27_CountProfilePreserved ==
    AffinePair =>
        /\ CountsOf(enc.text) = CountsOf(text)
        /\ \A _H \in ReferenceEntropies : \A _kH \in EntropyDeviations :
               LET result == DecisionOf(_H, _kH)
               IN  result.err = "" => plain_count(result, Len(text)) = cipher_count(result, Len(text))

\* a text of the count profile (2, 1, 1) that changes every one of its symbols,
\* and is counted as deviating on both sides
C27_Witness ==
    /\ AffinePair /\ Len(alphabet) = 4 /\ a = 3 /\ b = 1
    /\ CountsOf(text) = <<2, 1, 1>>
    /\ \A i \in 1..Len(text) : enc.text[i] # text[i]
    /\ plain_count(DecisionOf(1000, 0), Len(text)) = 1
    /\ cipher_count(DecisionOf(1000, 0), Len(text)) = 1

----------------------------------------------------------------------------
(* The content of the crossing bigram table *)

\* the count a table [(l-gram, count), ...] gives x, 0 when it does not list x
TableCount(table, x) ==
    IF \E i \in 1..Len(table) : table[i][1] = x
    THEN table[CHOOSE i \in 1..Len(table) : table[i][1] = x][2]
    ELSE 0

LastDoubled(_text) == <<_text[Len(_text)], _text[Len(_text)]>>

\* every bigram is listed once, with a positive count
ProperTable(table) ==
    /\ \A i \in 1..Len(table) : table[i][2] > 0
    /\ \A i \in 1..Len(table) : \A k \in 1..Len(table) : table[i][1] = table[k][1] => i = k

(* C29: for every text of length n >= 2, bigram_count_crossing returns the
   counts of the n-1 adjacent pairs text[i]text[i+1] plus exactly one extra
   occurrence of the last symbol doubled, not of the wrap-around pair; it
   differs by that one bigram from the n-1 sliding-window bigrams that the
   criteria 1.2, 1.3 and 5.1 enumerate for the same text. *)
C29_CrossingTableContent ==
    (bresult.err # "pending" /\ Len(btext) >= 2) =>
        /\ bresult.err = ""
        /\ ProperTable(bresult.value)
        /\ \A x \in CounterSyms \X CounterSyms :
               TableCount(bresult.value, x)
                   = Occurrences(BigramsAt(btext), x) + (IF x = LastDoubled(btext) THEN 1 ELSE 0)

\* a text whose last symbol differs from the one before it and from the first:
\* the doubled bigram is in the table and is no window of the text
C29_Witness ==
    /\ bresult.err = "" /\ Len(btext) = 3
    /\ btext[3] # btext[2] /\ btext[3] # btext[1]
    /\ TableCount(bresult.value, LastDoubled(btext)) = 1
    /\ TableCount(bresult.value, <<btext[3], btext[1]>>) = 0

----------------------------------------------------------------------------
(* Mode selection with an empty list of forbidden bigrams *)

\* the bigram call of evaluate_all, with forbidden_bigrams = []
EmptyBigramCall ==
    /\ Evaluated
    /\ forbidden_symbols = NoneList /\ symbols_frequency = NoneList
    /\ forbidden_bigrams = SomeList(<<>>)

AllZero(result) ==
    /\ result.err = ""
    /\ DOMAIN result.value = DOMAIN generated_texts
    /\ \A L \in DOMAIN generated_texts : result.value[L] = <<0, 0>>

(* C30: called in bigram mode as evaluate_all does (forbidden_symbols and
   symbols_frequency None) with forbidden_bigrams = [], criteria_1_0 and
   criteria_1_1 (k_p >= 1) return (0, 0) for every length, while
   criteria_1_2 and criteria_1_3 choose their mode by the truthiness of
   forbidden_bigrams, take the unigram branch and fail before producing any
   result. *)
C30_EmptyForbiddenBigrams ==
    EmptyBigramCall =>
        /\ (criterion = "1.0" \/ (criterion = "1.1" /\ kp >= 1)) => AllZero(criteria_result)
        /\ criterion \in {"1.2", "1.3"} => criteria_result = Raised("TypeError")

\* criterion 1.2 failing on a corpus of two pairs, with a reference table given
C30_Witness ==
    /\ EmptyBigramCall /\ criterion = "1.2"
    /\ bigrams_frequency # NoneList /\ bigrams_frequency.val # <<>>
    /\ \E L \in DOMAIN generated_texts : Len(generated_texts[L]) = 2
    /\ criteria_result = Raised("TypeError")

====
